---- MODULE Spec2Model ----
(***************************************************************************)
(* State-machine model of adampresley/httphelpers:                         *)
(*   - responses : Html / Text / Json writers over an http.ResponseWriter  *)
(*   - requests  : GetFromRequest typed extraction from an *http.Request   *)
(*   - fileuploads : ReadUploadedFile / UploadFileToDir                    *)
(* Strings that the code inspects character by character (numbers, paths)  *)
(* are sequences of one-character strings; opaque payloads are sequences   *)
(* of chunks.                                                              *)
(***************************************************************************)
EXTENDS Integers, Sequences, FiniteSets, TLC

VARIABLES
    w,          \* responses: the http.ResponseWriter the handlers write to
    call,       \* responses: the last handler call made on w
    respCalls,  \* responses: number of handler calls made on w
    req,        \* requests: the *http.Request handed to the extraction helpers
    got,        \* requests: the last extraction made on req and its result
    up,         \* fileuploads: the ReadUploadedFile / UploadFileToDir call in progress
    files,      \* fileuploads: the files the call has created on disk
    mock,       \* httphelpers: the MockHttpClient (mutex, callIndex, Expects, Calls)
    testing,    \* httphelpers: the failures reported to the mock's *testing.T
    goroutines  \* httphelpers: the goroutines calling the mock's methods

respVars == <<w, call, respCalls>>
reqVars == <<req, got>>
upVars == <<up, files>>
mockVars == <<mock, testing, goroutines>>
vars == <<w, call, respCalls, req, got, up, files, mock, testing, goroutines>>

(***************************************************************************)
(* Bounds                                                                  *)
(***************************************************************************)
\* handler calls made on one response writer
MaxCalls == 2
\* values a name is bound to in a request, body form and URL query together
MaxVals == 2
\* options passed to one upload call
MaxOpts == 2
\* path elements of a literal file-name template
MaxNameElems == 3
\* largest seed (time.Now().UnixNano()) of the random-string source
MaxSeed == 3
\* words and whitespace runs an Authorization header value is made of
MaxParts == 5
\* goroutines sharing one MockHttpClient
MaxGoroutines == 2
\* method calls made on one MockHttpClient
MaxMockCalls == 4

(***************************************************************************)
(* responses: the response sink (net/http ResponseWriter contract, as      *)
(* implemented by httptest.ResponseRecorder)                               *)
(***************************************************************************)
StatusOK == 200
StatusBadRequest == 400
StatusUnauthorized == 401
StatusInternalServerError == 500

HeaderKeys == {"Content-Type", "Content-Disposition", "Content-Length"}

\* httptest.NewRecorder(): Code 200, no header, nothing written.  log is the
\* sequence of calls the handler made on the writer.
NewRecorder ==
    [ header      |-> [k \in HeaderKeys |-> ""],
      wroteHeader |-> FALSE,
      Code        |-> StatusOK,
      sent        |-> [k \in HeaderKeys |-> ""],
      Body        |-> <<>>,
      log         |-> <<>> ]

\* w.Header().Set(key, value)
HeaderSet(s, key, value) ==
    [s EXCEPT !.header = [s.header EXCEPT ![key] = value],
              !.log = Append(s.log, [op |-> "Header.Set", key |-> key])]

\* the status line goes out once: the first status wins and the header map
\* is snapshotted at that moment
commitHeader(s, code) ==
    IF s.wroteHeader THEN s
    ELSE [s EXCEPT !.wroteHeader = TRUE, !.Code = code, !.sent = s.header]

\* w.WriteHeader(code)
WriteHeader(s, code) ==
    [commitHeader(s, code) EXCEPT
        !.log = Append(s.log, [op |-> "WriteHeader", code |-> code])]

\* w.Write(b): an implicit 200 status when none was written
Write(s, b) ==
    [commitHeader(s, StatusOK) EXCEPT
        !.Body = s.Body \o b,
        !.log = Append(s.log, [op |-> "Write"])]

(***************************************************************************)
(* responses: values handed to the writers                                 *)
(***************************************************************************)
\* a string, an int, a struct{Name string} and a channel (not serializable)
Values ==
    { [kind |-> "string", s |-> "Hello World"],
      [kind |-> "int", s |-> "10"],
      [kind |-> "struct", s |-> "Test"],
      [kind |-> "chan", s |-> "0xc000010000"] }

\* fmt.Fprintf(w, "%v", value)
Sprintv(v) ==
    IF v.kind = "struct" THEN <<"{", v.s, "}">> ELSE <<v.s>>

\* json.Marshal(value): channels have no JSON encoding
jsonMarshal(v) ==
    CASE v.kind = "string" -> [err |-> FALSE, b |-> <<"\"", v.s, "\"">>]
      [] v.kind = "int"    -> [err |-> FALSE, b |-> <<v.s>>]
      [] v.kind = "struct" -> [err |-> FALSE, b |-> <<"{\"name\":", "\"", v.s, "\"", "}">>]
      [] OTHER             -> [err |-> TRUE,  b |-> <<>>]

\* the fixed {message, suggestion} envelope of Json
ErrorEnvelope ==
    <<"{\"message\":", "\"", "Error marshaling value for writing", "\"",
      ",\"suggestion\":", "\"", "See error log for more information", "\"", "}">>

IsSuccessRange(status) == status >= 200 /\ status < 300

\* mutant of write: the status is written before the Content-Type header is set
write_StatusFirst(s, contentType, status, value) ==
    LET s1 == IF status > 299 THEN WriteHeader(s, status) ELSE s
        s2 == HeaderSet(s1, "Content-Type", contentType)
    IN  Write(s2, Sprintv(value))

\* mutant of write: the status is written whenever it is not a success status
write_OutsideSuccessRange(s, contentType, status, value) ==
    LET s1 == HeaderSet(s, "Content-Type", contentType)
        s2 == IF ~IsSuccessRange(status) THEN WriteHeader(s1, status) ELSE s1
    IN  Write(s2, Sprintv(value))

\* write(w, contentType, status, value)
write(s, contentType, status, value) ==
    LET s1 == HeaderSet(s, "Content-Type", contentType)
        s2 == IF status > 299 THEN WriteHeader(s1, status) ELSE s1
    IN  Write(s2, Sprintv(value))

\* mutant of Json: a marshalling failure is answered with the requested status
JsonWrite_RequestedStatus(s, status, value) ==
    LET s1 == HeaderSet(s, "Content-Type", "application/json")
        m  == jsonMarshal(value)
    IN  IF m.err
        THEN Write(WriteHeader(s1, status), ErrorEnvelope)
        ELSE Write(IF status > 299 THEN WriteHeader(s1, status) ELSE s1, m.b)

\* Json(w, status, value), as a function of the writer
JsonWrite(s, status, value) ==
    LET s1 == HeaderSet(s, "Content-Type", "application/json")
        m  == jsonMarshal(value)
    IN  IF m.err
        THEN Write(WriteHeader(s1, StatusInternalServerError), ErrorEnvelope)
        ELSE Write(IF status > 299 THEN WriteHeader(s1, status) ELSE s1, m.b)

\* status codes the callers pass
Statuses == {100, 199, 200, 201, 202, 299, 300, 404, 500}

NoCall == [fn |-> "none"]

\* one handler call: the writer before it, and what was asked
Called(fn, status, value, s) ==
    /\ respCalls < MaxCalls
    /\ w' = s
    /\ call' = [fn |-> fn, status |-> status, value |-> value, pre |-> w]
    /\ respCalls' = respCalls + 1
    /\ UNCHANGED <<reqVars, upVars, mockVars>>

Html(status, value) == Called("Html", status, value, write(w, "text/html", status, value))
Text(status, value) == Called("Text", status, value, write(w, "text/plain", status, value))
Json(status, value) == Called("Json", status, value, JsonWrite(w, status, value))

HtmlOK(value) == Html(StatusOK, value)
TextOK(value) == Text(StatusOK, value)
TextBadRequest(value) == Text(StatusBadRequest, value)
TextInternalServerError(value) == Text(StatusInternalServerError, value)
TextUnauthorized(value) == Text(StatusUnauthorized, value)
JsonOK(value) == Json(StatusOK, value)
JsonBadRequest(value) == Json(StatusBadRequest, value)
JsonInternalServerError(value) == Json(StatusInternalServerError, value)
JsonUnauthorized(value) == Json(StatusUnauthorized, value)

\* a new response for the next handler
NextResponse ==
    /\ respCalls > 0
    /\ w' = NewRecorder
    /\ call' = NoCall
    /\ respCalls' = 0
    /\ UNCHANGED <<reqVars, upVars, mockVars>>

InitResp ==
    /\ w = NewRecorder
    /\ call = NoCall
    /\ respCalls = 0

NextResp ==
    \/ \E st \in Statuses, v \in Values : Html(st, v)
    \/ \E st \in Statuses, v \in Values : Text(st, v)
    \/ \E st \in Statuses, v \in Values : Json(st, v)
    \/ \E v \in Values : HtmlOK(v)
    \/ \E v \in Values : TextOK(v)
    \/ \E v \in Values : TextBadRequest(v)
    \/ \E v \in Values : TextInternalServerError(v)
    \/ \E v \in Values : TextUnauthorized(v)
    \/ \E v \in Values : JsonOK(v)
    \/ \E v \in Values : JsonBadRequest(v)
    \/ \E v \in Values : JsonInternalServerError(v)
    \/ \E v \in Values : JsonUnauthorized(v)
    \/ NextResponse


(***************************************************************************)
(* strconv: decimal parsing.  A string is a sequence of one-character      *)
(* strings; a parsed integer is kept as sign and canonical decimal         *)
(* magnitude, so that 32- and 64-bit limits are the real ones.             *)
(***************************************************************************)
Digits == {"0", "1", "2", "3", "4", "5", "6", "7", "8", "9"}

DigitVal(c) ==
    CASE c = "0" -> 0 [] c = "1" -> 1 [] c = "2" -> 2 [] c = "3" -> 3 [] c = "4" -> 4
      [] c = "5" -> 5 [] c = "6" -> 6 [] c = "7" -> 7 [] c = "8" -> 8 [] OTHER -> 9

DigitChar(d) ==
    CASE d = 0 -> "0" [] d = 1 -> "1" [] d = 2 -> "2" [] d = 3 -> "3" [] d = 4 -> "4"
      [] d = 5 -> "5" [] d = 6 -> "6" [] d = 7 -> "7" [] d = 8 -> "8" [] OTHER -> "9"

RECURSIVE Itoa(_)
\* the decimal form of a non-negative number (%d, {{.size}})
Itoa(n) == IF n < 10 THEN <<DigitChar(n)>> ELSE Itoa(n \div 10) \o <<DigitChar(n % 10)>>

Tail2(s) == SubSeq(s, 2, Len(s))

RECURSIVE StripZeros(_)
\* the magnitude without leading zeros ("007" -> "7", "000" -> "0")
StripZeros(d) ==
    IF Len(d) > 1 /\ d[1] = "0" THEN StripZeros(Tail2(d)) ELSE d

\* a > b for canonical magnitudes
MagGreater(a, b) ==
    \/ Len(a) > Len(b)
    \/ /\ Len(a) = Len(b)
       /\ \E i \in 1..Len(a) :
            /\ DigitVal(a[i]) > DigitVal(b[i])
            /\ \A j \in 1..(i - 1) : a[j] = b[j]

\* 2^31 - 1, 2^31, 2^32 - 1, 2^63 - 1, 2^63, 2^64 - 1
MaxInt32Mag == <<"2","1","4","7","4","8","3","6","4","7">>
MinInt32Mag == <<"2","1","4","7","4","8","3","6","4","8">>
MaxUint32Mag == <<"4","2","9","4","9","6","7","2","9","5">>
MaxInt64Mag == <<"9","2","2","3","3","7","2","0","3","6","8","5","4","7","7","5","8","0","7">>
MinInt64Mag == <<"9","2","2","3","3","7","2","0","3","6","8","5","4","7","7","5","8","0","8">>
MaxUint64Mag == <<"1","8","4","4","6","7","4","4","0","7","3","7","0","9","5","5","1","6","1","5">>

ZeroNum == [neg |-> FALSE, mag |-> <<"0">>]
ParseErr == [err |-> TRUE, v |-> ZeroNum]

AllDigits(d) == Len(d) > 0 /\ \A i \in 1..Len(d) : d[i] \in Digits

\* mutant of ParseInt: the range of 64 bits whatever the bit size
ParseInt_Always64(s, bitSize) ==
    LET signed == Len(s) > 0 /\ s[1] \in {"+", "-"}
        neg    == Len(s) > 0 /\ s[1] = "-"
        d      == IF signed THEN Tail2(s) ELSE s
        mag    == StripZeros(d)
        limit  == IF neg THEN MinInt64Mag ELSE MaxInt64Mag
    IN  IF ~AllDigits(d) THEN ParseErr
        ELSE IF MagGreater(mag, limit) THEN ParseErr
        ELSE [err |-> FALSE, v |-> [neg |-> neg /\ mag # <<"0">>, mag |-> mag]]

\* strconv.ParseInt(s, 10, bitSize)
ParseInt(s, bitSize) ==
    LET signed == Len(s) > 0 /\ s[1] \in {"+", "-"}
        neg    == Len(s) > 0 /\ s[1] = "-"
        d      == IF signed THEN Tail2(s) ELSE s
        mag    == StripZeros(d)
        limit  == IF bitSize = 32
                  THEN (IF neg THEN MinInt32Mag ELSE MaxInt32Mag)
                  ELSE (IF neg THEN MinInt64Mag ELSE MaxInt64Mag)
    IN  IF ~AllDigits(d) THEN ParseErr
        ELSE IF MagGreater(mag, limit) THEN ParseErr
        ELSE [err |-> FALSE, v |-> [neg |-> neg /\ mag # <<"0">>, mag |-> mag]]

\* strconv.ParseUint(s, 10, bitSize): no sign is accepted
ParseUint(s, bitSize) ==
    LET mag   == StripZeros(s)
        limit == IF bitSize = 32 THEN MaxUint32Mag ELSE MaxUint64Mag
    IN  IF ~AllDigits(s) THEN ParseErr
        ELSE IF MagGreater(mag, limit) THEN ParseErr
        ELSE [err |-> FALSE, v |-> [neg |-> FALSE, mag |-> mag]]

RECURSIVE Low32From(_, _, _)
\* the low 32 bits of a magnitude, kept as two halves of 16 bits
Low32From(d, hi, lo) ==
    IF d = <<>> THEN [hi |-> hi, lo |-> lo]
    ELSE LET l == lo * 10 + DigitVal(Head(d))
         IN  Low32From(Tail(d), (hi * 10 + l \div 65536) % 65536, l % 65536)

Low32(mag) == Low32From(mag, 0, 0)

\* the two's complement of 32 bits: (2^32 - h) % 2^32
Negated32(h) ==
    IF h.lo = 0 THEN [hi |-> (65536 - h.hi) % 65536, lo |-> 0]
    ELSE [hi |-> 65535 - h.hi, lo |-> 65536 - h.lo]

\* the decimal magnitude of hi * 65536 + lo
MagOf32(h) ==
    LET t == h.hi * 5536 + h.lo
        q == h.hi * 6 + t \div 10000
        r == t % 10000
    IN  IF q = 0 THEN Itoa(r)
        ELSE Itoa(q) \o <<DigitChar(r \div 1000), DigitChar((r \div 100) % 10),
                          DigitChar((r \div 10) % 10), DigitChar(r % 10)>>

\* the conversion int32(x) of an int64: the low 32 bits, read as signed
Int32(v) ==
    LET u == IF v.neg THEN Negated32(Low32(v.mag)) ELSE Low32(v.mag)
    IN  IF u.hi >= 32768 THEN [neg |-> TRUE, mag |-> MagOf32(Negated32(u))]
        ELSE [neg |-> FALSE, mag |-> MagOf32(u)]

\* the conversion uint32(x) of a uint64: the low 32 bits
Uint32(v) == [neg |-> FALSE, mag |-> MagOf32(Low32(v.mag))]

\* the conversions applied to every element of a slice
Int32s(vs) == [i \in 1..Len(vs) |-> Int32(vs[i])]
Uint32s(vs) == [i \in 1..Len(vs) |-> Uint32(vs[i])]

\* strconv.ParseBool(s)
ParseBool(s) ==
    IF s \in { <<"1">>, <<"t">>, <<"T">>, <<"T","R","U","E">>,
               <<"t","r","u","e">>, <<"T","r","u","e">> }
    THEN [err |-> FALSE, v |-> TRUE]
    ELSE IF s \in { <<"0">>, <<"f">>, <<"F">>, <<"F","A","L","S","E">>,
                    <<"f","a","l","s","e">>, <<"F","a","l","s","e">> }
    THEN [err |-> FALSE, v |-> FALSE]
    ELSE [err |-> TRUE, v |-> FALSE]


(***************************************************************************)
(* path/filepath and strings, on sequences of characters (Unix separator)  *)
(***************************************************************************)
RECURSIVE SplitFrom(_, _, _)
\* the elements of s after those in done, cur being the element under way
SplitFrom(s, done, cur) ==
    IF s = <<>> THEN Append(done, cur)
    ELSE IF Head(s) = "/" THEN SplitFrom(Tail(s), Append(done, cur), <<>>)
    ELSE SplitFrom(Tail(s), done, Append(cur, Head(s)))

\* strings.Split(s, "/"): the elements between separators, empty ones kept
Split(s) == SplitFrom(s, <<>>, <<>>)

RECURSIVE JoinElems(_)
\* the elements joined with "/"
JoinElems(elems) ==
    IF Len(elems) = 0 THEN <<>>
    ELSE IF Len(elems) = 1 THEN elems[1]
    ELSE elems[1] \o <<"/">> \o JoinElems(Tail(elems))

DotDot == <<".", ".">>

RECURSIVE Resolve(_, _, _)
\* filepath.Clean's pass over the elements: "" and "." are dropped, ".." removes
\* the element before it, is dropped at the root and kept at the start of a
\* relative path
Resolve(elems, out, rooted) ==
    IF elems = <<>> THEN out
    ELSE LET c == Head(elems)
             next ==
                IF c = <<>> \/ c = <<".">> THEN out
                ELSE IF c = DotDot
                     THEN IF Len(out) > 0 /\ out[Len(out)] # DotDot
                          THEN SubSeq(out, 1, Len(out) - 1)
                          ELSE IF rooted THEN out ELSE Append(out, c)
                     ELSE Append(out, c)
         IN  Resolve(Tail(elems), next, rooted)

IsAbs(path) == Len(path) > 0 /\ path[1] = "/"

\* filepath.Clean(path)
Clean(path) ==
    LET out == Resolve(Split(path), <<>>, IsAbs(path))
    IN  IF IsAbs(path) THEN <<"/">> \o JoinElems(out)
        ELSE IF out = <<>> THEN <<".">> ELSE JoinElems(out)

\* filepath.Join(a, b): empty elements are ignored, the result is cleaned
Join(a, b) ==
    IF a = <<>> /\ b = <<>> THEN <<>>
    ELSE IF a = <<>> THEN Clean(b)
    ELSE IF b = <<>> THEN Clean(a)
    ELSE Clean(a \o <<"/">> \o b)

\* strings.HasPrefix(s, prefix)
HasPrefix(s, prefix) ==
    Len(s) >= Len(prefix) /\ SubSeq(s, 1, Len(prefix)) = prefix

RECURSIVE TrimSlashes(_)
TrimSlashes(path) ==
    IF Len(path) > 0 /\ path[Len(path)] = "/"
    THEN TrimSlashes(SubSeq(path, 1, Len(path) - 1)) ELSE path

\* filepath.Base(path)
Base(path) ==
    IF path = <<>> THEN <<".">>
    ELSE LET t == TrimSlashes(path)
             e == Split(t)
         IN  IF t = <<>> THEN <<"/">> ELSE e[Len(e)]

\* filepath.Ext(path): from the last dot of the last element
Ext(path) ==
    LET e    == Split(path)
        last == e[Len(e)]
        dots == { i \in 1..Len(last) : last[i] = "." }
    IN  IF dots = {} THEN <<>>
        ELSE LET i == CHOOSE d \in dots : \A o \in dots : o <= d
             IN  SubSeq(last, i, Len(last))

\* the elements of a cleaned absolute path ("/" has none)
ElemsOf(abs) == Resolve(Split(abs), <<>>, TRUE)

(***************************************************************************)
(* requests: the request and net/http's form handling                      *)
(***************************************************************************)
Names == {"k", "j"}

\* values a form or query binds to a name
FormStrs ==
    { <<>>, <<"1">>, <<"-","3">>, <<"x">>,
      <<"5","0","0","0","0","0","0","0","0","0">> }

\* values a route binds to a path parameter ("" when the route has none)
PathStrs == { <<>>, <<"5">>, <<"t">> }

Methods == {"GET", "POST"}

RECURSIVE SeqsUpTo(_, _)
\* the sequences over S of length at most n
SeqsUpTo(S, n) ==
    IF n = 0 THEN { <<>> }
    ELSE LET shorter == SeqsUpTo(S, n - 1)
         IN  shorter \cup { Append(q, x) : q \in { t \in shorter : Len(t) = n - 1 }, x \in S }

\* the name the requests bind values to; nothing is bound to the other name
BoundName == "k"

\* http.NewRequest: the values BoundName is bound to in the body form, the
\* URL query and the route; r.Form is nil
NewRequest(method, body, query, path) ==
    [ Method  |-> method,
      body    |-> [x \in Names |-> IF x = BoundName THEN body ELSE <<>>],
      query   |-> [x \in Names |-> IF x = BoundName THEN query ELSE <<>>],
      path    |-> [x \in Names |-> IF x = BoundName THEN path ELSE <<>>],
      FormNil |-> TRUE,
      Form    |-> [x \in Names |-> <<>>],
      Header  |-> [Authorization |-> <<>>, ContentType |-> ""],
      Body    |-> [bytes |-> <<>>, json |-> FALSE, xml |-> FALSE, readFails |-> FALSE] ]

Requests ==
    { NewRequest(m, bq[1], bq[2], p) :
        m \in Methods,
        bq \in { x \in SeqsUpTo(FormStrs, MaxVals) \X SeqsUpTo(FormStrs, MaxVals) :
                    Len(x[1]) + Len(x[2]) <= MaxVals },
        p \in PathStrs }

\* the body is read as a form only for these methods (net/http ParseForm)
HasBodyForm(method) == method \in {"POST", "PUT", "PATCH"}

\* r.ParseForm() / r.ParseMultipartForm(): fills r.Form once, body values
\* before query values
ParseForm(r) ==
    IF ~r.FormNil THEN r
    ELSE [r EXCEPT
            !.FormNil = FALSE,
            !.Form = [x \in Names |->
                        (IF HasBodyForm(r.Method) THEN r.body[x] ELSE <<>>) \o r.query[x]]]

\* r.Form[name]: no parsing; a nil map has no entries
FormLookup(r, name) == IF r.FormNil THEN <<>> ELSE r.Form[name]

\* r.FormValue(name): parses the form when r.Form is nil, then the first value
FormValue(r, name) ==
    LET r1 == ParseForm(r)
        vs == r1.Form[name]
    IN  [r |-> r1, v |-> IF Len(vs) > 0 THEN vs[1] ELSE <<>>]

\* r.PathValue(name)
PathValue(r, name) == r.path[name]

(***************************************************************************)
(* requests: GetFromRequest                                                *)
(***************************************************************************)
\* getInt(r, name, size)
getInt(r, name, size) ==
    LET f  == FormValue(r, name)
        p1 == ParseInt(f.v, size)
        p2 == ParseInt(PathValue(f.r, name), size)
    IN  [r |-> f.r,
         v |-> IF ~p1.err THEN p1.v ELSE IF ~p2.err THEN p2.v ELSE ZeroNum]

\* getUint(r, name, size)
getUint(r, name, size) ==
    LET f  == FormValue(r, name)
        p1 == ParseUint(f.v, size)
        p2 == ParseUint(PathValue(f.r, name), size)
    IN  [r |-> f.r,
         v |-> IF ~p1.err THEN p1.v ELSE IF ~p2.err THEN p2.v ELSE ZeroNum]

RECURSIVE getIntSlice(_, _)
\* getIntSlice's loop over values = r.Form[name]: the values that parse are
\* appended in order
getIntSlice(values, size) ==
    IF values = <<>> THEN <<>>
    ELSE LET temp == ParseInt(Head(values), size)
         IN  (IF temp.err THEN <<>> ELSE <<temp.v>>) \o getIntSlice(Tail(values), size)

RECURSIVE getUintSlice(_, _)
\* getUintSlice's loop over values = r.Form[name]
getUintSlice(values, size) ==
    IF values = <<>> THEN <<>>
    ELSE LET temp == ParseUint(Head(values), size)
         IN  (IF temp.err THEN <<>> ELSE <<temp.v>>) \o getUintSlice(Tail(values), size)

ScalarTypes == {"string", "bool", "int", "int32", "int64", "uint", "uint32", "uint64"}
NumericSliceTypes == {"[]int", "[]int32", "[]int64", "[]uint", "[]uint32", "[]uint64"}
RequestTypes == ScalarTypes \cup {"[]string"} \cup NumericSliceTypes

\* GetFromRequest[T](r, name): the request afterwards and the value returned
GetFromRequest(T, r, name) ==
    CASE T = "string" ->
            LET f == FormValue(r, name)
            IN  [r |-> f.r, v |-> IF f.v = <<>> THEN PathValue(f.r, name) ELSE f.v]
      [] T = "[]string" ->
            [r |-> r, v |-> FormLookup(r, name)]
      [] T = "bool" ->
            LET f    == FormValue(r, name)
                temp == IF f.v = <<>> THEN PathValue(f.r, name) ELSE f.v
                b    == ParseBool(temp)
            IN  [r |-> f.r, v |-> IF b.err THEN FALSE ELSE b.v]
      [] T \in {"int", "int64"} -> getInt(r, name, 64)
      [] T = "int32" -> [getInt(r, name, 32) EXCEPT !.v = Int32(@)]
      [] T \in {"uint", "uint64"} -> getUint(r, name, 64)
      [] T = "uint32" -> [getUint(r, name, 32) EXCEPT !.v = Uint32(@)]
      [] T \in {"[]int", "[]int64"} ->
            [r |-> r, v |-> getIntSlice(FormLookup(r, name), 64)]
      [] T = "[]int32" ->
            [r |-> r, v |-> Int32s(getIntSlice(FormLookup(r, name), 32))]
      [] T \in {"[]uint", "[]uint64"} ->
            [r |-> r, v |-> getUintSlice(FormLookup(r, name), 64)]
      [] T = "[]uint32" ->
            [r |-> r, v |-> Uint32s(getUintSlice(FormLookup(r, name), 32))]

NoGet == [T |-> "none"]

\* a call Get[T](r, name)
Get(T, name) ==
    LET g == GetFromRequest(T, req, name)
    IN  /\ req' = g.r
        /\ got' = [T |-> T, name |-> name, v |-> g.v, pre |-> req]
        /\ UNCHANGED <<respVars, upVars, mockVars>>

\* the caller parses the form itself (r.ParseForm()), as the tests do
CallerParsesForm ==
    /\ req.FormNil
    /\ req' = ParseForm(req)
    /\ got' = NoGet
    /\ UNCHANGED <<respVars, upVars, mockVars>>

InitReq ==
    /\ req \in Requests
    /\ got = NoGet

NextReq ==
    \/ \E T \in RequestTypes, n \in Names : Get(T, n)
    \/ CallerParsesForm


(***************************************************************************)
(* requests: the Authorization header and the request body                 *)
(***************************************************************************)
UpperLetters ==
    << "A","B","C","D","E","F","G","H","I","J","K","L","M",
       "N","O","P","Q","R","S","T","U","V","W","X","Y","Z" >>
LowerLetters ==
    << "a","b","c","d","e","f","g","h","i","j","k","l","m",
       "n","o","p","q","r","s","t","u","v","w","x","y","z" >>

\* strings.ToLower(s)
ToLower(s) ==
    [ i \in 1..Len(s) |->
        IF \E n \in 1..26 : UpperLetters[n] = s[i]
        THEN LowerLetters[CHOOSE n \in 1..26 : UpperLetters[n] = s[i]]
        ELSE s[i] ]

\* unicode.IsSpace, for the characters used here
IsSpace(c) == c \in {" ", "\t", "\n", "\r"}

RECURSIVE FieldsFrom(_, _, _)
\* the fields of s after those in done, cur being the field under way
FieldsFrom(s, done, cur) ==
    IF s = <<>> THEN (IF cur = <<>> THEN done ELSE Append(done, cur))
    ELSE IF IsSpace(Head(s))
    THEN FieldsFrom(Tail(s), IF cur = <<>> THEN done ELSE Append(done, cur), <<>>)
    ELSE FieldsFrom(Tail(s), done, Append(cur, Head(s)))

\* strings.Fields(s): the maximal runs of non-space characters
Fields(s) == FieldsFrom(s, <<>>, <<>>)

bearer == <<"b", "e", "a", "r", "e", "r">>

\* mutant of GetAuthorizationBearer: the number of fields is not checked
GetAuthorizationBearer_AtLeastTwo(r) ==
    LET bearerParts == Fields(r.Header.Authorization)
    IN  IF Len(bearerParts) < 2 \/ ToLower(bearerParts[1]) # bearer
        THEN [token |-> <<>>, err |-> TRUE, msg |-> <<"invalid bearer authorization header">>]
        ELSE [token |-> bearerParts[2], err |-> FALSE, msg |-> <<>>]

\* GetAuthorizationBearer(r)
GetAuthorizationBearer(r) ==
    LET bearerParts == Fields(r.Header.Authorization)
    IN  IF Len(bearerParts) # 2 \/ ToLower(bearerParts[1]) # bearer
        THEN [token |-> <<>>, err |-> TRUE, msg |-> <<"invalid bearer authorization header">>]
        ELSE [token |-> bearerParts[2], err |-> FALSE, msg |-> <<>>]

\* what Authorization header values are made of: whitespace and words
HeaderParts ==
    { <<" ">>, <<"\t">>,
      <<"B", "e", "a", "r", "e", "r">>, <<"b", "E", "A", "R", "E", "R">>,
      <<"B", "a", "s", "i", "c">>, <<"t", "K">> }

RECURSIVE Concat(_)
Concat(parts) == IF parts = <<>> THEN <<>> ELSE Head(parts) \o Concat(Tail(parts))

\* Authorization header values; the empty one is the absent header
AuthHeaders == { Concat(ps) : ps \in SeqsUpTo(HeaderParts, MaxParts) }

\* req.Header.Set("Authorization", value)
SetAuthorization(r, value) ==
    [r EXCEPT !.Header = [r.Header EXCEPT !.Authorization = value]]

\* Content-Type header values; "" is the absent header
ContentTypes ==
    { "", "application/json", "application/xml", "text/plain",
      "application/json; charset=utf-8", "Application/JSON" }

\* request bodies: the bytes, whether they are valid JSON / XML for the
\* destination type, and whether reading them fails
Bodies ==
    { [bytes |-> <<"{\"name\":\"Adam\",\"age\":30}">>, json |-> TRUE, xml |-> FALSE, readFails |-> f] : f \in BOOLEAN }
    \cup { [bytes |-> <<"<BodyTestPayload>", "...">>, json |-> FALSE, xml |-> TRUE, readFails |-> f] : f \in BOOLEAN }
    \cup { [bytes |-> <<"{\"name\": \"Adam\", \"age\": }">>, json |-> FALSE, xml |-> FALSE, readFails |-> FALSE],
           [bytes |-> <<>>, json |-> FALSE, xml |-> FALSE, readFails |-> FALSE] }

\* httptest.NewRequest("POST", "/", body) with req.Header.Set("Content-Type", ct)
BodyRequest(ct, body) ==
    [NewRequest("POST", <<>>, <<>>, <<>>) EXCEPT
        !.Header = [@ EXCEPT !.ContentType = ct], !.Body = body]

\* json.Unmarshal(b, &result) / xml.Unmarshal(b, &result)
Unmarshal(format, body) ==
    IF (format = "json" /\ body.json) \/ (format = "xml" /\ body.xml)
    THEN [err |-> FALSE, result |-> <<"decoded", format>>]
    ELSE [err |-> TRUE, result |-> <<>>]

\* the outcome of a ReadBody call: result, error and what was attempted
BodyOutcome(result, kind, msg, unmarshaled) ==
    [result |-> result, err |-> kind # "nil", kind |-> kind, msg |-> msg,
     unmarshaled |-> unmarshaled]

\* decoding with the decoder of the format, and ReadBody's return after it
Decode(format, body) ==
    LET u == Unmarshal(format, body)
    IN  IF u.err
        THEN BodyOutcome(u.result, "unmarshal",
                <<"error unmarshaling body to destination: ", "cause", ", contents: ">> \o body.bytes,
                format)
        ELSE BodyOutcome(u.result, "nil", <<>>, format)

\* mutant of ReadBody: the media type is matched without its case
ReadBody_AnyCase(r) ==
    LET ct == r.Header.ContentType
    IN  IF r.Body.readFails
        THEN BodyOutcome(<<>>, "read", <<"error reading request body: ", "cause">>, "none")
        ELSE IF ct \in {"application/json", "Application/JSON"} THEN Decode("json", r.Body)
        ELSE IF ct = "application/xml" THEN Decode("xml", r.Body)
        ELSE BodyOutcome(<<>>, "unsupported", <<"unsupported content type", ": ", ct>>, "none")

\* ReadBody[T](r)
ReadBody(r) ==
    LET ct == r.Header.ContentType
    IN  IF r.Body.readFails
        THEN BodyOutcome(<<>>, "read", <<"error reading request body: ", "cause">>, "none")
        ELSE IF ct = "application/json" THEN Decode("json", r.Body)
        ELSE IF ct = "application/xml" THEN Decode("xml", r.Body)
        ELSE BodyOutcome(<<>>, "unsupported", <<"unsupported content type", ": ", ct>>, "none")

\* a call GetAuthorizationBearer(r)
AuthorizationBearer ==
    /\ got' = [T |-> "bearer", out |-> GetAuthorizationBearer(req), pre |-> req]
    /\ UNCHANGED <<req, respVars, upVars, mockVars>>

\* io.ReadAll(r.Body) leaves the body at its end
Drained(body) ==
    IF body.readFails THEN body
    ELSE [bytes |-> <<>>, json |-> FALSE, xml |-> FALSE, readFails |-> FALSE]

\* a call ReadBody[T](r)
Body ==
    /\ got' = [T |-> "body", out |-> ReadBody(req), pre |-> req]
    /\ req' = [req EXCEPT !.Body = Drained(req.Body)]
    /\ UNCHANGED <<respVars, upVars, mockVars>>

InitReqHeader ==
    /\ req \in { SetAuthorization(NewRequest("GET", <<>>, <<>>, <<>>), h) : h \in AuthHeaders }
               \cup { BodyRequest(ct, b) : ct \in ContentTypes, b \in Bodies }
    /\ got = NoGet

NextReqHeader ==
    \/ AuthorizationBearer
    \/ Body

(***************************************************************************)
(* filedownloads: StreamBytes and DownloadCsv                              *)
(***************************************************************************)
\* w.Header().Set(key, value), the value kept in the log
HeaderSetTo(s, key, value) ==
    [s EXCEPT !.header = [s.header EXCEPT ![key] = value],
              !.log = Append(s.log, [op |-> "Header.Set", key |-> key, value |-> value])]

\* w.Write(b) on a sink that takes the first n bytes of b (all of them when it
\* does not fail): an implicit 200 status when none was written
WriteTo(s, b, n) ==
    [commitHeader(s, StatusOK) EXCEPT
        !.Body = s.Body \o SubSeq(b, 1, n),
        !.log = Append(s.log, [op |-> "Write", b |-> b])]

\* the error of a Write that took n bytes of b
WriteError(b, n) ==
    IF n = Len(b) THEN [nil |-> TRUE, wrapped |-> FALSE, cause |-> "none"]
    ELSE [nil |-> FALSE, wrapped |-> FALSE, cause |-> "write"]

\* fmt.Sprintf("attachment; filename=\"%s\"", filename)
Disposition(filename) == <<"attachment; filename=\"">> \o filename \o <<"\"">>

\* mutant of StreamBytesTo: the body is written before Content-Length is set
StreamBytesTo_LengthLast(s, filename, contentType, content, n) ==
    LET s1 == HeaderSetTo(s, "Content-Disposition", Disposition(filename))
        s2 == HeaderSetTo(s1, "Content-Type", contentType)
        s3 == WriteTo(s2, content, n)
    IN  HeaderSetTo(s3, "Content-Length", Itoa(Len(content)))

\* StreamBytes(w, filename, contentType, content): the writer afterwards
StreamBytesTo(s, filename, contentType, content, n) ==
    LET s1 == HeaderSetTo(s, "Content-Disposition", Disposition(filename))
        s2 == HeaderSetTo(s1, "Content-Type", contentType)
        s3 == HeaderSetTo(s2, "Content-Length", Itoa(Len(content)))
    IN  WriteTo(s3, content, n)

\* file names (chunks of the name; the second holds a double quote)
Filenames == { <<"test.csv">>, <<"a", "\"", "b">> }

DownloadTypes == {"text/csv", "application/pdf"}

\* the bytes to download
Contents ==
    { <<>>, <<"x">>, <<"x", "y">>,
      <<"c", "o", "l", "1", ",", "c", "o", "l", "2", "\n">> }

\* how many bytes of b the sink may take: all, none, or half
Taken(b) == { Len(b), 0, Len(b) \div 2 }

\* one streamer call: the writer before it, what was asked and the error returned
Streamed(fn, filename, contentType, content, n) ==
    /\ respCalls < MaxCalls
    /\ w' = StreamBytesTo(w, filename, contentType, content, n)
    /\ call' = [fn |-> fn, filename |-> filename, contentType |-> contentType,
                content |-> content, err |-> WriteError(content, n), pre |-> w]
    /\ respCalls' = respCalls + 1
    /\ UNCHANGED <<reqVars, upVars, mockVars>>

StreamBytes(filename, contentType, content, n) ==
    Streamed("StreamBytes", filename, contentType, content, n)

DownloadCsv(filename, content, n) ==
    Streamed("DownloadCsv", filename, "text/csv", content, n)

\* an *os.File (or any io.Reader): its bytes, whether Stat fails, and how many
\* of the bytes can be read before reading fails (all of them when it does not)
OsFile(content, statFails, readable) ==
    [content |-> content, statFails |-> statFails, readable |-> readable]

OsFiles ==
    UNION { { OsFile(c, FALSE, r) : r \in Taken(c) } : c \in Contents }
    \cup { OsFile(c, TRUE, Len(c)) : c \in Contents }

\* io.Copy(w, content): the bytes read are handed to the writer (no Write when
\* nothing was read), which takes n of them
CopyTo(s, file, n) ==
    IF file.readable = 0 THEN s
    ELSE WriteTo(s, SubSeq(file.content, 1, file.readable), n)

\* the error of io.Copy: the write error, else the read error
CopyError(file, n) ==
    IF n < file.readable THEN [nil |-> FALSE, wrapped |-> FALSE, cause |-> "write"]
    ELSE IF file.readable < Len(file.content)
    THEN [nil |-> FALSE, wrapped |-> FALSE, cause |-> "read"]
    ELSE [nil |-> TRUE, wrapped |-> FALSE, cause |-> "none"]

\* mutant of StreamContentTo: a failed copy is made once more
StreamContentTo_Retry(s, filename, contentType, file, size, n) ==
    LET s1 == HeaderSetTo(s, "Content-Disposition", Disposition(filename))
        s2 == HeaderSetTo(s1, "Content-Type", contentType)
        s3 == HeaderSetTo(s2, "Content-Length", Itoa(size))
        s4 == CopyTo(s3, file, n)
    IN  IF CopyError(file, n).nil THEN s4 ELSE CopyTo(s4, file, n)

\* StreamContent(w, filename, contentType, content, size): the writer afterwards
StreamContentTo(s, filename, contentType, file, size, n) ==
    LET s1 == HeaderSetTo(s, "Content-Disposition", Disposition(filename))
        s2 == HeaderSetTo(s1, "Content-Type", contentType)
        s3 == HeaderSetTo(s2, "Content-Length", Itoa(size))
    IN  CopyTo(s3, file, n)

\* fmt.Errorf("error getting file info: %w", err)
StatError == [nil |-> FALSE, wrapped |-> TRUE, cause |-> "stat"]

\* sizes a caller of StreamContent declares besides the content's own
DeclaredSizes(content) == { Len(content), 100 }

\* one call that streams a file or reader as the whole response
StreamedFile(fn, filename, contentType, file, size, n, stats) ==
    /\ respCalls = 0
    /\ n <= file.readable
    /\ IF stats /\ file.statFails
       THEN /\ w' = w
            /\ call' = [fn |-> fn, filename |-> filename, contentType |-> contentType,
                        file |-> file, size |-> size, err |-> StatError, pre |-> w]
       ELSE /\ w' = StreamContentTo(w, filename, contentType, file, size, n)
            /\ call' = [fn |-> fn, filename |-> filename, contentType |-> contentType,
                        file |-> file, size |-> size, err |-> CopyError(file, n), pre |-> w]
    /\ respCalls' = respCalls + 1
    /\ UNCHANGED <<reqVars, upVars, mockVars>>

\* StreamContent(w, filename, contentType, content, size)
StreamContent(filename, contentType, file, size, n) ==
    StreamedFile("StreamContent", filename, contentType, file, size, n, FALSE)

\* DownloadFile(w, filename, contentType, file): Stat, then StreamContent with
\* the size Stat reports
DownloadFile(filename, contentType, file, n) ==
    StreamedFile("DownloadFile", filename, contentType, file, Len(file.content), n, TRUE)

\* DownloadCsvFile(w, filename, file)
DownloadCsvFile(filename, file, n) ==
    StreamedFile("DownloadCsvFile", filename, "text/csv", file, Len(file.content), n, TRUE)

NextDown ==
    \/ \E f \in Filenames, ct \in DownloadTypes, c \in Contents :
          \E n \in Taken(c) : StreamBytes(f, ct, c, n)
    \/ \E f \in Filenames, c \in Contents : \E n \in Taken(c) : DownloadCsv(f, c, n)
    \/ /\ respCalls = 0
       /\ \E f \in Filenames, ct \in DownloadTypes, file \in OsFiles :
             \E size \in DeclaredSizes(file.content),
                n \in Taken(SubSeq(file.content, 1, file.readable)) :
                   StreamContent(f, ct, file, size, n)
    \/ /\ respCalls = 0
       /\ \E f \in Filenames, ct \in DownloadTypes, file \in OsFiles :
             \E n \in Taken(SubSeq(file.content, 1, file.readable)) :
                   DownloadFile(f, ct, file, n)
    \/ /\ respCalls = 0
       /\ \E f \in Filenames, file \in OsFiles :
             \E n \in Taken(SubSeq(file.content, 1, file.readable)) :
                   DownloadCsvFile(f, file, n)
    \/ NextResponse

(***************************************************************************)
(* fileuploads: options                                                    *)
(***************************************************************************)
DefaultMaxFileSize == 10485760
DefaultRandomStringSize == 10

WithMaxFileSize(size) == [field |-> "MaxFileSize", size |-> size]
WithRandomStringSize(size) == [field |-> "RandomStringSize", size |-> size]

\* opt(opts)
ApplyOption(o, opt) ==
    IF opt.field = "MaxFileSize"
    THEN [o EXCEPT !.MaxFileSize = opt.size]
    ELSE [o EXCEPT !.RandomStringSize = opt.size]

\* mutant of ApplyOptions: only the first option is applied
ApplyOptions_OnlyFirst(o, options) ==
    IF options = <<>> THEN o ELSE ApplyOption(o, Head(options))

RECURSIVE ApplyOptions(_, _)
\* for _, opt := range options { opt(opts) }
ApplyOptions(o, options) ==
    IF options = <<>> THEN o
    ELSE ApplyOptions(ApplyOption(o, Head(options)), Tail(options))

\* opts := &UploadOptions{MaxFileSize: 10 << 20, RandomStringSize: 10}
DefaultOptions ==
    [MaxFileSize |-> DefaultMaxFileSize, RandomStringSize |-> DefaultRandomStringSize]

OptionChoices ==
    { WithMaxFileSize(5), WithMaxFileSize(20971520), WithRandomStringSize(2) }

(***************************************************************************)
(* fileuploads: the multipart request                                      *)
(***************************************************************************)
FieldNames == {"f", "g"}

NoInfo == [nil |-> TRUE, Filename |-> <<>>, Size |-> 0, Header |-> "", content |-> <<>>]

\* a *multipart.FileHeader and the bytes of its part
FileHeader(filename, size) ==
    [nil |-> FALSE, Filename |-> filename, Size |-> size,
     Header |-> "form-data; name; filename", content |-> <<"bytes of", filename>>]

FileHeaders ==
    { FileHeader(<<"a", ".", "c">>, sz) : sz \in {5, 6, 10485761} }
    \cup { FileHeader(<<"b">>, 5) }

\* a request whose body does not parse as multipart/form-data
MalformedRequest == [parseOk |-> FALSE, File |-> [n \in FieldNames |-> NoInfo], Value |-> {}]

\* a multipart request: r.MultipartForm.File (at most one file per field here)
\* and the names of the non-file fields
MultipartRequest(file, value) == [parseOk |-> TRUE, File |-> file, Value |-> value]

UploadRequests ==
    {MalformedRequest}
    \cup { MultipartRequest([n \in FieldNames |-> NoInfo], v) : v \in {{}, {"f"}} }
    \cup { MultipartRequest([n \in FieldNames |-> IF n = "f" THEN h ELSE NoInfo], {}) :
             h \in FileHeaders }

(***************************************************************************)
(* fileuploads: errors and the FileUpload value                            *)
(***************************************************************************)
NilError == [kind |-> "nil", msg |-> <<>>, size |-> 0, limit |-> 0]
Errorf(kind, msg) == [kind |-> kind, msg |-> msg, size |-> 0, limit |-> 0]

\* FileUpload{}
EmptyFileUpload ==
    [ File |-> "nil", info |-> NoInfo,
      FileName |-> <<>>, Size |-> 0, Header |-> "",
      Ext |-> <<>>, SavedFile |-> <<>>, SavedFilePath |-> <<>> ]

\* callbackData := FileUpload{File: uploadedFile, info: info}
CallbackData(info) == [EmptyFileUpload EXCEPT !.File = "uploadedFile", !.info = info]

\* mutant of ReadUploadedFileEntry: the size check does not stop the call
ReadUploadedFileEntry_NoSizeCheck(fieldName, r, options, openFails) ==
    LET opts == ApplyOptions(DefaultOptions, options)
        info == r.File[fieldName]
        base == [opts |-> opts, done |-> TRUE, opened |-> FALSE, stream |-> "none",
                 callbacks |-> 0, file |-> EmptyFileUpload, err |-> NilError]
    IN  IF ~r.parseOk
        THEN [base EXCEPT !.err = Errorf("parse", <<"error parsing form data: ", "cause">>)]
        ELSE IF info.nil \/ openFails
        THEN [base EXCEPT !.err = Errorf("fileinfo",
                    <<"error retrieving ", "file info", " from form: ", "cause">>)]
        ELSE [base EXCEPT !.done = FALSE, !.opened = TRUE, !.stream = "open",
                          !.callbacks = 1, !.file = CallbackData(info)]

\* mutant of ReadUploadedFileEntry: the Close is deferred only after the size check
ReadUploadedFileEntry_LateDefer(fieldName, r, options, openFails) ==
    LET opts == ApplyOptions(DefaultOptions, options)
        info == r.File[fieldName]
        base == [opts |-> opts, done |-> TRUE, opened |-> FALSE, stream |-> "none",
                 callbacks |-> 0, file |-> EmptyFileUpload, err |-> NilError]
    IN  IF ~r.parseOk
        THEN [base EXCEPT !.err = Errorf("parse", <<"error parsing form data: ", "cause">>)]
        ELSE IF info.nil \/ openFails
        THEN [base EXCEPT !.err = Errorf("fileinfo",
                    <<"error retrieving ", "file info", " from form: ", "cause">>)]
        ELSE IF info.Size > opts.MaxFileSize
        THEN [base EXCEPT !.opened = TRUE, !.stream = "open",
                          !.err = [kind |-> "exceeds",
                                   msg |-> <<"file size of %d bytes ", "exceeds the limit",
                                             " of %d bytes">>,
                                   size |-> info.Size, limit |-> opts.MaxFileSize]]
        ELSE [base EXCEPT !.done = FALSE, !.opened = TRUE, !.stream = "open",
                          !.callbacks = 1, !.file = CallbackData(info)]

\* ReadUploadedFile up to the call of the callback: either it has returned
\* (done, with the deferred Close run if the stream was opened) or the callback
\* has been entered with the open stream
ReadUploadedFileEntry(fieldName, r, options, openFails) ==
    LET opts == ApplyOptions(DefaultOptions, options)
        info == r.File[fieldName]
        base == [opts |-> opts, done |-> TRUE, opened |-> FALSE, stream |-> "none",
                 callbacks |-> 0, file |-> EmptyFileUpload, err |-> NilError]
    IN  IF ~r.parseOk
        THEN [base EXCEPT !.err = Errorf("parse", <<"error parsing form data: ", "cause">>)]
        ELSE IF info.nil \/ openFails
        THEN [base EXCEPT !.err = Errorf("fileinfo",
                    <<"error retrieving ", "file info", " from form: ", "cause">>)]
        ELSE IF info.Size > opts.MaxFileSize
        THEN [base EXCEPT !.opened = TRUE, !.stream = "closed",
                          !.err = [kind |-> "exceeds",
                                   msg |-> <<"file size of %d bytes ", "exceeds the limit",
                                             " of %d bytes">>,
                                   size |-> info.Size, limit |-> opts.MaxFileSize]]
        ELSE [base EXCEPT !.done = FALSE, !.opened = TRUE, !.stream = "open",
                          !.callbacks = 1, !.file = CallbackData(info)]

(***************************************************************************)
(* fileuploads: randomString, the file-name template, the file system      *)
(***************************************************************************)
\* characters := "abcdefghijklmnopqrstuvwxyz0123456789"
characters ==
    << "a","b","c","d","e","f","g","h","i","j","k","l","m","n","o","p","q","r",
       "s","t","u","v","w","x","y","z","0","1","2","3","4","5","6","7","8","9" >>

\* the source's next state (a linear congruential stand-in for math/rand: the
\* string is a function of the seed, one index below len(characters) per byte)
randNext(x) == (x * 75 + 74) % 65537

RECURSIVE randomBytes(_, _)
randomBytes(x, length) ==
    IF length <= 0 THEN <<>>
    ELSE <<characters[(randNext(x) % Len(characters)) + 1]>>
            \o randomBytes(randNext(x), length - 1)

\* mutant of randomString: one character short
randomString_OneShort(length, seed) == randomBytes(seed, length - 1)

\* randomString(length), seeded with the time of the call
randomString(length, seed) == randomBytes(seed, length)

Seeds == 0..MaxSeed

\* template text and {{.name}} actions
Lit(str) == [var |-> "", lit |-> str]
Var(name) == [var |-> name, lit |-> <<>>]
Template(pieces) == [syntaxOk |-> TRUE, pieces |-> pieces]

RECURSIVE ExecuteFrom(_, _, _)
\* the pieces are written to out in order; a field the data lacks is an error
ExecuteFrom(pieces, data, out) ==
    IF pieces = <<>> THEN [err |-> FALSE, out |-> out]
    ELSE IF Head(pieces).var = ""
    THEN ExecuteFrom(Tail(pieces), data, out \o Head(pieces).lit)
    ELSE IF Head(pieces).var \notin DOMAIN data THEN [err |-> TRUE, out |-> out]
    ELSE ExecuteFrom(Tail(pieces), data, out \o data[Head(pieces).var])

\* mutant of Execute: a missing key is not an error
Execute_MissingKeyIgnored(pieces, data) ==
    [err |-> FALSE, out |-> ExecuteFrom(pieces, data, <<>>).out]

\* tt.Execute(&destFileName, templateData) with missingkey=error
Execute(pieces, data) == ExecuteFrom(pieces, data, <<>>)

\* elements of the literal file names
NameElems == { DotDot, <<"u", "x">> }

\* literal templates: up to MaxNameElems elements joined with "/"
LiteralNames == { JoinElems(e) : e \in SeqsUpTo(NameElems, MaxNameElems) }

Templates ==
    { Template(<<Lit(n)>>) : n \in LiteralNames }
    \cup { Template(<<Var("baseFileName")>>),
           Template(<<Lit(<<"f", "-">>), Var("randomString"), Lit(<<"-">>), Var("baseFileName")>>),
           Template(<<Var("size"), Var("ext")>>),
           Template(<<Var("fileName")>>),
           Template(<<Var("badField")>>),
           [syntaxOk |-> FALSE, pieces |-> <<Lit(<<"{", "{">>)>>] }

NoTemplate == Template(<<>>)

\* destination directories: /u exists (and has a sibling /ux), u exists below
\* the working directory, /n does not exist
DestDirs == { <<"/", "u">>, <<"u">>, <<".">>, <<>>, <<"/", "n">> }

\* os.Getwd()
Cwd == <<"/", "w">>

ExistingDirs ==
    { <<"/">>, <<"/", "u">>, <<"/", "u", "x">>, <<"/", "w">>, <<"/", "w", "/", "u">> }

\* filepath.Abs(path), and where the operating system resolves path
Abs(path) == IF IsAbs(path) THEN Clean(path) ELSE Join(Cwd, path)

\* the directory holding a cleaned absolute path
Dir(abs) ==
    LET e == ElemsOf(abs)
    IN  <<"/">> \o JoinElems(SubSeq(e, 1, Len(e) - 1))

\* os.Create(path) can succeed: the parent exists and path is not a directory
CanCreate(path) ==
    /\ path # <<>>
    /\ Abs(path) \notin ExistingDirs
    /\ Dir(Abs(path)) \in ExistingDirs

\* what the environment makes fail during the callback
Faults == {"none", "create", "copy", "getwd"}

\* the callback UploadFileToDir hands to ReadUploadedFile: the error it
\* returns, the FileUpload result points to, and the files on disk afterwards
UploadCallback(file, opts, destDir, tmpl, seed, fault) ==
    LET info == file.info
        templateData ==
            [ fileName     |-> info.Filename,
              baseFileName |-> Base(info.Filename),
              ext          |-> Ext(info.Filename),
              size         |-> Itoa(info.Size),
              randomString |-> randomString(opts.RandomStringSize, seed) ]
        x == Execute(tmpl.pieces, templateData)
        finalPath == Join(destDir, x.out)
        failed(kind, msg) == [err |-> Errorf(kind, msg), result |-> file, files |-> {}]
    IN  IF ~tmpl.syntaxOk
        THEN failed("tmplparse", <<"error parsing destination file name template: ", "cause">>)
        ELSE IF x.err
        THEN failed("tmplexec", <<"error executing destination file name template: ", "cause">>)
        ELSE IF ~HasPrefix(finalPath, Clean(destDir))
        THEN failed("invalidpath", <<"invalid destination file path attempted: ", "name">>)
        ELSE IF fault = "create" \/ ~CanCreate(finalPath)
        THEN failed("create", <<"error creating file", " 'name': ", "cause">>)
        ELSE IF fault = "copy"
        THEN [err |-> Errorf("copy", <<"error copying uploaded file", " to temporary file: ", "cause">>),
              result |-> file,
              files |-> {[path |-> Abs(finalPath), content |-> <<>>]}]
        ELSE [err |-> NilError,
              result |-> [file EXCEPT
                            !.SavedFilePath = IF fault = "getwd" /\ ~IsAbs(finalPath)
                                              THEN <<>> ELSE Abs(finalPath),
                            !.Ext = Ext(finalPath),
                            !.SavedFile = finalPath],
              files |-> {[path |-> Abs(finalPath), content |-> info.content]}]

(***************************************************************************)
(* fileuploads: the calls                                                  *)
(***************************************************************************)
IdleUpload ==
    [ pc |-> "idle", fn |-> "none", fieldName |-> "", req |-> MalformedRequest,
      options |-> <<>>, destDir |-> <<>>, tmpl |-> NoTemplate,
      opts |-> DefaultOptions, opened |-> FALSE, stream |-> "none", callbacks |-> 0,
      file |-> EmptyFileUpload, err |-> NilError, result |-> EmptyFileUpload ]

\* a call entered: it has returned already, or it is inside the callback
Entered(fn, fieldName, r, destDir, tmpl, options, e) ==
    [ pc |-> IF e.done THEN "returned" ELSE "callback",
      fn |-> fn, fieldName |-> fieldName, req |-> r,
      options |-> options, destDir |-> destDir, tmpl |-> tmpl,
      opts |-> e.opts, opened |-> e.opened, stream |-> e.stream,
      callbacks |-> e.callbacks, file |-> e.file, err |-> e.err,
      result |-> EmptyFileUpload ]

\* ReadUploadedFile(fieldName, r, callback, options...) with a caller's callback
ReadUploadedFile(fieldName, r, options, openFails) ==
    /\ up.pc = "idle"
    /\ up' = Entered("ReadUploadedFile", fieldName, r, <<>>, NoTemplate, options,
                     ReadUploadedFileEntry(fieldName, r, options, openFails))
    /\ UNCHANGED <<files, respVars, reqVars, mockVars>>

\* the caller's callback returns (nil or an error); the deferred Close runs and
\* ReadUploadedFile returns what the callback returned
CallbackReturns(cbErr) ==
    /\ up.pc = "callback" /\ up.fn = "ReadUploadedFile"
    /\ up' = [up EXCEPT !.pc = "returned", !.stream = "closed", !.err = cbErr]
    /\ UNCHANGED <<files, respVars, reqVars, mockVars>>

\* UploadFileToDir(fieldName, r, destDir, destFileNameTemplate, options...):
\* result := &FileUpload{} and the call of ReadUploadedFile
UploadFileToDir(fieldName, r, destDir, tmpl, options, openFails) ==
    /\ up.pc = "idle"
    /\ up' = Entered("UploadFileToDir", fieldName, r, destDir, tmpl, options,
                     ReadUploadedFileEntry(fieldName, r, options, openFails))
    /\ UNCHANGED <<files, respVars, reqVars, mockVars>>

\* mutant of UploadCallbackRuns: result is pointed at the file only on success
UploadCallbackRuns_ResultOnSuccess(seed, fault) ==
    /\ up.pc = "callback" /\ up.fn = "UploadFileToDir"
    /\ LET c == UploadCallback(up.file, up.opts, up.destDir, up.tmpl, seed, fault)
       IN  /\ up' = [up EXCEPT !.pc = "returned", !.stream = "closed", !.err = c.err,
                               !.result = IF c.err.kind = "nil" THEN c.result
                                          ELSE EmptyFileUpload]
           /\ files' = c.files
    /\ UNCHANGED <<respVars, reqVars, mockVars>>

\* the callback of UploadFileToDir runs; the deferred Close runs and the call
\* returns *result and the callback's error
UploadCallbackRuns(seed, fault) ==
    /\ up.pc = "callback" /\ up.fn = "UploadFileToDir"
    /\ LET c == UploadCallback(up.file, up.opts, up.destDir, up.tmpl, seed, fault)
       IN  /\ up' = [up EXCEPT !.pc = "returned", !.stream = "closed",
                               !.err = c.err, !.result = c.result]
           /\ files' = c.files
    /\ UNCHANGED <<respVars, reqVars, mockVars>>

\* the next request is served, with a fresh upload directory
NextUpload ==
    /\ up.pc = "returned"
    /\ up' = IdleUpload
    /\ files' = {}
    /\ UNCHANGED <<respVars, reqVars, mockVars>>

CallbackErrors == { NilError, Errorf("callback", <<"callback failed">>) }

UpAtRest == up = IdleUpload /\ files = {}

NextUp ==
    \/ /\ up.pc = "idle"
       /\ \E fld \in FieldNames, r \in UploadRequests,
             options \in SeqsUpTo(OptionChoices, MaxOpts), openFails \in BOOLEAN :
               ReadUploadedFile(fld, r, options, openFails)
    \/ \E cbErr \in CallbackErrors : CallbackReturns(cbErr)
    \/ /\ up.pc = "idle"
       /\ \E fld \in FieldNames, r \in UploadRequests, d \in DestDirs, t \in Templates,
             options \in SeqsUpTo(OptionChoices, MaxOpts), openFails \in BOOLEAN :
               UploadFileToDir(fld, r, d, t, options, openFails)
    \/ \E seed \in Seeds, fault \in Faults : UploadCallbackRuns(seed, fault)
    \/ NextUpload

\* the packages share no state: each is checked with the others at rest
(***************************************************************************)
(* httphelpers: MockHttpClient (src/unnamed/part_005)                      *)
(***************************************************************************)
\* NewMockHttpClient(t); locked is the state of the sync.Mutex
NewMockHttpClient ==
    [locked |-> FALSE, callIndex |-> 0, Expects |-> <<>>, Calls |-> <<>>]

NoErr == [nil |-> TRUE, msg |-> "", args |-> <<>>]

\* the (response, error) pairs tests register
Expectations ==
    { [WantResponse |-> "200 OK", WantError |-> NoErr],
      [WantResponse |-> "nil",
       WantError |-> [nil |-> FALSE, msg |-> "timeout", args |-> <<>>]] }

NoExpect == [WantResponse |-> "nil", WantError |-> NoErr]

Goroutines == 1..MaxGoroutines

\* a goroutine that is in no method of the mock
IdleGoroutine ==
    [pc |-> "idle", op |-> "none", req |-> <<>>, arg |-> NoExpect,
     expected |-> NoExpect, resp |-> "nil", err |-> NoErr, calls |-> 0]

RECURSIVE CallsStarted(_)
\* method calls the goroutines of set S have started
CallsStarted(S) ==
    IF S = {} THEN 0
    ELSE LET g == CHOOSE x \in S : TRUE
         IN  goroutines[g].calls + CallsStarted(S \ {g})

\* goroutine g calls a method of the mock; a Do carries a request of its own
Enter(g, op, arg) ==
    /\ goroutines[g].pc = "idle"
    /\ CallsStarted(Goroutines) < MaxMockCalls
    /\ goroutines' = [goroutines EXCEPT ![g] =
          [IdleGoroutine EXCEPT !.pc = "lock", !.op = op, !.arg = arg,
                                !.req = <<g, goroutines[g].calls + 1>>,
                                !.calls = goroutines[g].calls + 1]]
    /\ UNCHANGED <<mock, testing, respVars, reqVars, upVars>>

\* mutant of CanLock: Lock returns although the mutex is held
CanLock_Unguarded(mu) == TRUE

\* m.mutex.Lock() returns only when the mutex is not held
CanLock(mu) == ~mu.locked

\* m.mutex.Lock() at the head of Do, OnDo and VerifyCallCount
Lock(g) ==
    /\ goroutines[g].pc = "lock"
    /\ CanLock(mock)
    /\ mock' = [mock EXCEPT !.locked = TRUE]
    /\ goroutines' = [goroutines EXCEPT ![g].pc = goroutines[g].op]
    /\ UNCHANGED <<testing, respVars, reqVars, upVars>>

\* defer m.mutex.Unlock(): the method returns
Unlock(g) ==
    /\ goroutines[g].pc = "unlock"
    /\ mock' = [mock EXCEPT !.locked = FALSE]
    /\ goroutines' = [goroutines EXCEPT ![g].pc = "idle"]
    /\ UNCHANGED <<testing, respVars, reqVars, upVars>>

DoCalledTooOften == [msg |-> "'Do' called more times than expected"]

\* Do, first half: the limit check, and expected := m.Expects[m.callIndex]
DoCheck(g) ==
    /\ goroutines[g].pc = "Do"
    /\ IF mock.callIndex >= Len(mock.Expects)
       THEN /\ testing' = Append(testing, DoCalledTooOften)
            /\ goroutines' = [goroutines EXCEPT
                  ![g].pc = "unlock", ![g].resp = "nil",
                  ![g].err = [nil |-> FALSE, msg |-> "expected %d calls, got %d",
                              args |-> <<Len(mock.Expects), mock.callIndex + 1>>]]
       ELSE /\ testing' = testing
            /\ goroutines' = [goroutines EXCEPT
                  ![g].pc = "record",
                  ![g].expected = mock.Expects[mock.callIndex + 1]]
    /\ UNCHANGED <<mock, respVars, reqVars, upVars>>

\* mutant of Record: the call is recorded but not counted
Record_NoIncrement(mk, request, expected) ==
    [mk EXCEPT !.Calls = Append(@, [Request |-> request, Response |-> expected])]

\* m.Calls = append(m.Calls, ...); m.callIndex++
Record(mk, request, expected) ==
    [mk EXCEPT !.Calls = Append(@, [Request |-> request, Response |-> expected]),
               !.callIndex = @ + 1]

\* Do, second half: record the call and return the expectation
DoRecord(g) ==
    /\ goroutines[g].pc = "record"
    /\ mock' = Record(mock, goroutines[g].req, goroutines[g].expected)
    /\ goroutines' = [goroutines EXCEPT
          ![g].pc = "unlock",
          ![g].resp = goroutines[g].expected.WantResponse,
          ![g].err = goroutines[g].expected.WantError]
    /\ UNCHANGED <<testing, respVars, reqVars, upVars>>

\* Do(req)
Do(g) == Enter(g, "Do", NoExpect)

\* OnDo(wantResponse, wantErr): called
OnDo(g, wantResponse, wantErr) ==
    Enter(g, "OnDo", [WantResponse |-> wantResponse, WantError |-> wantErr])

\* OnDo: m.Expects = append(m.Expects, ...)
OnDoAppend(g) ==
    /\ goroutines[g].pc = "OnDo"
    /\ mock' = [mock EXCEPT !.Expects = Append(@, goroutines[g].arg)]
    /\ goroutines' = [goroutines EXCEPT ![g].pc = "unlock"]
    /\ UNCHANGED <<testing, respVars, reqVars, upVars>>

\* VerifyCallCount(): called
VerifyCallCount(g) == Enter(g, "VerifyCallCount", NoExpect)

\* VerifyCallCount: the comparison of len(m.Expects) with m.callIndex
VerifyCheck(g) ==
    /\ goroutines[g].pc = "VerifyCallCount"
    /\ testing' =
          IF Len(mock.Expects) # mock.callIndex
          THEN Append(testing, [msg |-> "expected %d calls, but got %d",
                                args |-> <<Len(mock.Expects), mock.callIndex>>])
          ELSE testing
    /\ goroutines' = [goroutines EXCEPT ![g].pc = "unlock"]
    /\ UNCHANGED <<mock, respVars, reqVars, upVars>>

MockAtRest ==
    /\ mock = NewMockHttpClient
    /\ testing = <<>>
    /\ goroutines = [g \in Goroutines |-> IdleGoroutine]

NextMock ==
    \E g \in Goroutines :
       \/ Do(g)
       \/ \E e \in Expectations : OnDo(g, e.WantResponse, e.WantError)
       \/ VerifyCallCount(g)
       \/ Lock(g)
       \/ DoCheck(g)
       \/ DoRecord(g)
       \/ OnDoAppend(g)
       \/ VerifyCheck(g)
       \/ Unlock(g)

RespAtRest == w = NewRecorder /\ call = NoCall /\ respCalls = 0
ReqAtRest == req = NewRequest("GET", <<>>, <<>>, <<>>) /\ got = NoGet

Init == InitResp /\ ReqAtRest /\ UpAtRest /\ MockAtRest

SpecResp == Init /\ [][NextResp]_vars
InitRequests == InitReq /\ RespAtRest /\ UpAtRest /\ MockAtRest
InitUploads == UpAtRest /\ RespAtRest /\ ReqAtRest /\ MockAtRest
SpecUp == InitUploads /\ [][NextUp]_vars
SpecReq == InitRequests /\ [][NextReq]_vars
InitDown == InitResp /\ ReqAtRest /\ UpAtRest /\ MockAtRest
SpecDown == InitDown /\ [][NextDown]_vars
InitHeaders == InitReqHeader /\ RespAtRest /\ UpAtRest /\ MockAtRest
SpecReqHeader == InitHeaders /\ [][NextReqHeader]_vars
InitMock == MockAtRest /\ RespAtRest /\ ReqAtRest /\ UpAtRest
SpecMock == InitMock /\ [][NextMock]_vars

(***************************************************************************)
(* Claims: responses                                                       *)
(***************************************************************************)
WasCalled == call.fn \in {"Html", "Text", "Json"}
\* the handler ran on a writer nothing had been written to
OnFreshWriter == WasCalled /\ ~call.pre.wroteHeader /\ call.pre.Body = <<>>
\* the calls the last handler made on the writer, in order
CallLog == SubSeq(w.log, Len(call.pre.log) + 1, Len(w.log))
StatusWrites == SelectSeq(CallLog, LAMBDA e : e.op = "WriteHeader")
BodyWritten == SubSeq(w.Body, Len(call.pre.Body) + 1, Len(w.Body))
Serializable == ~jsonMarshal(call.value).err
MarshalFailed == call.fn = "Json" /\ jsonMarshal(call.value).err
ContentTypeOf(fn) ==
    CASE fn = "Html" -> "text/html" [] fn = "Text" -> "text/plain" [] OTHER -> "application/json"
Contains(seq, x) == \E i \in 1..Len(seq) : seq[i] = x

\* C1: after Html, Text or Json on a fresh recorder with a serializable value,
\* the recorded status code equals the status the caller passed.
C1_StatusAsRequested ==
    (OnFreshWriter /\ Serializable) => w.Code = call.status

\* C7: Json on an unserializable value writes status 500 exactly once and no
\* other status, sets Content-Type application/json, and writes exactly the
\* {message, suggestion} envelope holding "Error marshaling value for writing";
\* on a fresh writer the response's status is 500 whatever status was requested.
C7_MarshalError ==
    MarshalFailed =>
        /\ Len(StatusWrites) = 1
        /\ StatusWrites[1].code = StatusInternalServerError
        /\ w.header["Content-Type"] = "application/json"
        /\ BodyWritten = ErrorEnvelope
        /\ Contains(BodyWritten, "Error marshaling value for writing")
        /\ OnFreshWriter =>
              /\ w.Code = StatusInternalServerError
              /\ w.sent["Content-Type"] = "application/json"

\* C7 witness: a marshalling failure with a requested status other than 500
C7_Witness ==
    MarshalFailed /\ OnFreshWriter /\ call.status = 201 /\ w.Code = StatusInternalServerError

C9_ContentTypeFirst ==
    WasCalled =>
        /\ Len(CallLog) >= 2
        /\ CallLog[1] = [op |-> "Header.Set", key |-> "Content-Type"]
        /\ \A i \in 2..Len(CallLog) : CallLog[i].op \in {"WriteHeader", "Write"}
        /\ Len(StatusWrites) <= 1
        /\ w.header["Content-Type"] = ContentTypeOf(call.fn)
        /\ OnFreshWriter => w.sent["Content-Type"] = ContentTypeOf(call.fn)

\* C9 witness: a call that wrote a status and a body after the header
C9_Witness ==
    /\ OnFreshWriter /\ call.fn = "Html" /\ Len(CallLog) = 3
    /\ CallLog[2].op = "WriteHeader" /\ CallLog[3].op = "Write"

(***************************************************************************)
(* Claims: requests                                                        *)
(***************************************************************************)
GotScalar == got.T \in ScalarTypes
\* what the request binds to the extracted name, per source
BodyVals == IF HasBodyForm(got.pre.Method) THEN got.pre.body[got.name] ELSE <<>>
QueryVals == got.pre.query[got.name]
PathVal == got.pre.path[got.name]
\* the first form/query value, body before query ("" when there is none)
FirstFormVal == IF Len(BodyVals \o QueryVals) > 0 THEN (BodyVals \o QueryVals)[1] ELSE <<>>

\* the value of type T a string stands for; T's zero value when it does not parse
Convert(T, str) ==
    CASE T = "string" -> str
      [] T = "bool" -> (IF ParseBool(str).err THEN FALSE ELSE ParseBool(str).v)
      [] T \in {"int", "int64"} -> (IF ParseInt(str, 64).err THEN ZeroNum ELSE ParseInt(str, 64).v)
      [] T = "int32" -> (IF ParseInt(str, 32).err THEN ZeroNum ELSE ParseInt(str, 32).v)
      [] T \in {"uint", "uint64"} -> (IF ParseUint(str, 64).err THEN ZeroNum ELSE ParseUint(str, 64).v)
      [] T = "uint32" -> (IF ParseUint(str, 32).err THEN ZeroNum ELSE ParseUint(str, 32).v)

ZeroValue(T) == CASE T = "string" -> <<>> [] T = "bool" -> FALSE [] OTHER -> ZeroNum

\* C2: scalar extraction follows the precedence body form, then URL query, then
\* path parameter: a (non-empty) body-form value decides the result; with no
\* body-form value a (non-empty) query value decides it; with neither, the path
\* parameter does.
C2_SourcePrecedence ==
    GotScalar =>
        /\ (Len(BodyVals) > 0 /\ BodyVals[1] # <<>>) => got.v = Convert(got.T, BodyVals[1])
        /\ (Len(BodyVals) = 0 /\ Len(QueryVals) > 0 /\ QueryVals[1] # <<>>) =>
                got.v = Convert(got.T, QueryVals[1])
        /\ (Len(BodyVals) = 0 /\ Len(QueryVals) = 0) => got.v = Convert(got.T, PathVal)

\* C3: for every scalar type the path parameter is consulted only when the
\* form/query lookup yields the empty string: a non-empty form/query value that
\* does not parse gives the zero value whatever the path parameter holds, and
\* with nothing bound in any source the result is the zero value.
C3_PathOnlyWhenFormEmpty ==
    GotScalar =>
        /\ FirstFormVal # <<>> => got.v = Convert(got.T, FirstFormVal)
        /\ (FirstFormVal # <<>> /\ Convert(got.T, FirstFormVal) = ZeroValue(got.T)
                /\ got.T # "string") => got.v = ZeroValue(got.T)
        /\ (Len(BodyVals) = 0 /\ Len(QueryVals) = 0 /\ PathVal = <<>>) =>
                got.v = ZeroValue(got.T)

\* C10: for []string the result is every value bound to the name in the body
\* form and the URL query, in order and unmodified, with no path fallback,
\* whether or not the request's form had been parsed before the call.
C10_StringSliceAllValues ==
    got.T = "[]string" => got.v = BodyVals \o QueryVals

\* the element type of a numeric sequence type
ElemType(T) ==
    CASE T = "[]int" -> "int" [] T = "[]int32" -> "int32" [] T = "[]int64" -> "int64"
      [] T = "[]uint" -> "uint" [] T = "[]uint32" -> "uint32" [] OTHER -> "uint64"

\* str parses as a number of type T
Parses(T, str) ==
    CASE T \in {"int", "int64"} -> ~ParseInt(str, 64).err
      [] T = "int32" -> ~ParseInt(str, 32).err
      [] T \in {"uint", "uint64"} -> ~ParseUint(str, 64).err
      [] OTHER -> ~ParseUint(str, 32).err

RECURSIVE ParsedOnes(_, _)
\* the values of the strings that parse as T, in order
ParsedOnes(T, strs) ==
    IF strs = <<>> THEN <<>>
    ELSE (IF Parses(T, Head(strs)) THEN <<Convert(T, Head(strs))>> ELSE <<>>)
            \o ParsedOnes(T, Tail(strs))

\* C11: for every numeric sequence type the result holds exactly the parsed
\* values of the bound strings that parse for the type and width, in their
\* original order; strings that do not parse are omitted and with none that
\* parses (or none bound) the result is the empty sequence.
C11_NumericSliceParsedInOrder ==
    got.T \in NumericSliceTypes =>
        got.v = ParsedOnes(ElemType(got.T), BodyVals \o QueryVals)

(***************************************************************************)
(* Claims about fileuploads (checked under SpecUp)                         *)
(***************************************************************************)
UploadCalled == up.fn # "none"
Returned == up.pc = "returned"

\* the file header the request holds for the named field
NamedInfo == up.req.File[up.fieldName]

\* the configured maximum: the last WithMaxFileSize passed, else 10 MiB
ConfiguredMax ==
    LET set == { i \in 1..Len(up.options) : up.options[i].field = "MaxFileSize" }
    IN  IF set = {} THEN DefaultMaxFileSize
        ELSE up.options[CHOOSE i \in set : \A o \in set : o <= i].size

\* C4: the callback is invoked at most once, and only when the multipart parse
\* succeeded, the named field is a file field and the declared size is within
\* the configured maximum; an absent field gives an error mentioning "file
\* info", a file over the maximum gives an error mentioning "exceeds the limit"
\* that carries the size and the limit, and neither invokes the callback.
C4_CallbackGuarded ==
    UploadCalled =>
        /\ up.callbacks <= 1
        /\ (up.pc = "callback") = (up.callbacks = 1 /\ up.stream = "open")
        /\ up.callbacks = 1 =>
              up.req.parseOk /\ ~NamedInfo.nil /\ NamedInfo.Size <= ConfiguredMax
        /\ (up.req.parseOk /\ NamedInfo.nil) =>
              /\ Returned
              /\ Contains(up.err.msg, "file info")
              /\ up.callbacks = 0
        /\ (up.opened /\ NamedInfo.Size > ConfiguredMax) =>
              /\ Returned
              /\ Contains(up.err.msg, "exceeds the limit")
              /\ up.err.size = NamedInfo.Size
              /\ up.err.limit = ConfiguredMax
              /\ up.callbacks = 0

\* a 6-byte file was rejected against WithMaxFileSize(5)
C4_Witness ==
    /\ up.fn = "ReadUploadedFile" /\ Returned
    /\ up.options # <<>> /\ NamedInfo.Size = 6 /\ ConfiguredMax = 5
    /\ up.err.kind = "exceeds" /\ up.callbacks = 0

\* C5: once opened, the stream is open for the whole callback and closed when
\* the function has returned, on every path (callback success, callback error,
\* size rejection); no call returns with the stream open.
C5_StreamClosedOnReturn ==
    /\ up.pc = "callback" => up.opened /\ up.stream = "open"
    /\ Returned => up.stream # "open" /\ (up.opened => up.stream = "closed")

\* a size rejection returned with the opened stream closed
C5_Witness ==
    /\ Returned /\ up.opened /\ up.stream = "closed"
    /\ up.err.kind = "exceeds" /\ up.callbacks = 0

\* the elements of the destination directory, resolved
DestElems == ElemsOf(Abs(up.destDir))

\* C6: whenever UploadFileToDir returns a FileUpload whose SavedFilePath is set,
\* the path is absolute and the destination directory is a proper ancestor of
\* it, for every destination directory and rendered name.
C6_SavedInsideDestDir ==
    (up.fn = "UploadFileToDir" /\ Returned /\ up.result.SavedFilePath # <<>>) =>
        LET p == up.result.SavedFilePath
            e == ElemsOf(p)
        IN  /\ IsAbs(p)
            /\ Len(e) > Len(DestElems)
            /\ SubSeq(e, 1, Len(DestElems)) = DestElems

UploadSucceeded == up.fn = "UploadFileToDir" /\ Returned /\ up.err.kind = "nil"

\* the values of the template variables other than randomString
NameData ==
    [ fileName     |-> NamedInfo.Filename,
      baseFileName |-> Base(NamedInfo.Filename),
      ext          |-> Ext(NamedInfo.Filename),
      size         |-> Itoa(NamedInfo.Size) ]

\* lowercase letters and digits
LowerAlnum == { LowerLetters[i] : i \in 1..26 } \cup Digits

\* the length configured for randomString: the last WithRandomStringSize, else 10
ConfiguredLength ==
    LET set == { i \in 1..Len(up.options) : up.options[i].field = "RandomStringSize" }
    IN  IF set = {} THEN DefaultRandomStringSize
        ELSE up.options[CHOOSE i \in set : \A o \in set : o <= i].size

RECURSIVE Renders(_, _)
\* name is the pieces rendered with NameData and, for randomString, some
\* lowercase-alphanumeric string of the configured length
Renders(pieces, name) ==
    IF pieces = <<>> THEN name = <<>>
    ELSE LET p == Head(pieces)
             n == IF p.var = "" THEN Len(p.lit)
                  ELSE IF p.var = "randomString" THEN ConfiguredLength
                  ELSE IF p.var \in DOMAIN NameData THEN Len(NameData[p.var])
                  ELSE Len(name) + 1
         IN  /\ Len(name) >= n
             /\ IF p.var = "" THEN SubSeq(name, 1, n) = p.lit
                ELSE IF p.var = "randomString"
                THEN \A i \in 1..n : name[i] \in LowerAlnum
                ELSE SubSeq(name, 1, n) = NameData[p.var]
             /\ Renders(Tail(pieces), SubSeq(name, n + 1, Len(name)))

\* the template renders a plain name: no separator and no "." or ".." element
RendersPlainName ==
    /\ \A i \in 1..Len(up.tmpl.pieces) : ~Contains(up.tmpl.pieces[i].lit, "/")
    /\ ~Contains(NamedInfo.Filename, "/")
    /\ ~Renders(up.tmpl.pieces, <<>>)
    /\ ~Renders(up.tmpl.pieces, <<".">>)
    /\ ~Renders(up.tmpl.pieces, DotDot)

\* the one file on disk holds exactly the uploaded bytes
SavedContentIsUpload ==
    /\ Cardinality(files) = 1
    /\ \A f \in files :
          /\ f.content = NamedInfo.content
          /\ up.result.SavedFilePath # <<>> => f.path = up.result.SavedFilePath
          /\ Base(f.path) = Base(up.result.SavedFile)

\* C15 (as stated): on a successful UploadFileToDir the saved file's base name
\* is exactly the template rendered with fileName, baseFileName, ext, size and
\* randomString (lowercase-alphanumeric, of exactly the configured length), and
\* the saved file's content equals the uploaded content.
C15_NameIsRenderedTemplate ==
    UploadSucceeded =>
        /\ \A f \in files : Renders(up.tmpl.pieces, Base(f.path))
        /\ SavedContentIsUpload

\* C15 (amended): on a successful UploadFileToDir the saved file's base name is
\* the rendered template whenever that is a plain name (no separator, not "."
\* or ".."); a literal name with separators is saved at destDir joined with it,
\* cleaned; the saved content equals the uploaded content.
C15_PlainNameIsRenderedTemplate ==
    UploadSucceeded =>
        /\ RendersPlainName => \A f \in files : Renders(up.tmpl.pieces, Base(f.path))
        /\ (Len(up.tmpl.pieces) = 1 /\ up.tmpl.pieces[1].var = "") =>
              up.result.SavedFile = Join(up.destDir, up.tmpl.pieces[1].lit)
        /\ SavedContentIsUpload

\* f-<two random characters>-a.c was saved in /u with the uploaded bytes
C15_Witness ==
    /\ UploadSucceeded /\ up.destDir = <<"/", "u">>
    /\ Len(up.tmpl.pieces) = 4 /\ ConfiguredLength = 2
    /\ Len(up.result.SavedFilePath) = 11
    /\ \E f \in files : f.content = <<"bytes of", <<"a", ".", "c">>>>

\* the variables a file-name template may use
DeclaredVars == {"fileName", "baseFileName", "ext", "size", "randomString"}

\* the template parses and uses a variable that is not declared
UsesUndeclaredVar ==
    /\ up.tmpl.syntaxOk
    /\ \E i \in 1..Len(up.tmpl.pieces) :
          up.tmpl.pieces[i].var # "" /\ up.tmpl.pieces[i].var \notin DeclaredVars

\* C16: UploadFileToDir with a template that references an undeclared variable
\* returns a template-execution error and no file has been created at any
\* point of the call; more generally a failure of template rendering or of the
\* path check happens before any file creation.  (The template is rendered in
\* the callback, that is for an upload that was read.)
C16_RenderFailsBeforeCreate ==
    up.fn = "UploadFileToDir" =>
        /\ up.pc = "callback" => files = {}
        /\ (Returned /\ up.callbacks = 1 /\ UsesUndeclaredVar) =>
              /\ up.err.kind = "tmplexec"
              /\ Contains(up.err.msg, "error executing destination file name template: ")
              /\ files = {}
        /\ (Returned /\ up.err.kind \in {"parse", "fileinfo", "exceeds",
                                         "tmplparse", "tmplexec", "invalidpath"}) =>
              files = {}

\* {{.badField}} failed in the callback and left no file
C16_Witness ==
    /\ up.fn = "UploadFileToDir" /\ Returned /\ up.callbacks = 1
    /\ UsesUndeclaredVar /\ up.err.kind = "tmplexec" /\ files = {}

\* C17: the FileUpload handed to the callback exposes, with the open stream,
\* the upload's metadata: FileName is the client's file name, Size the declared
\* size and Header the part's MIME header.
C17_CallbackSeesMetadata ==
    up.pc = "callback" =>
        /\ up.file.File = "uploadedFile" /\ up.stream = "open"
        /\ up.file.FileName = NamedInfo.Filename
        /\ up.file.Size = NamedInfo.Size
        /\ up.file.Header = NamedInfo.Header

\* C18: after a successful UploadFileToDir the result records SavedFilePath,
\* the absolute path of the saved file, SavedFile, the generated base name (the
\* rendered name without the destination directory), and Ext, the extension
\* with its leading dot.
C18_ResultRecordsSavedFile ==
    UploadSucceeded =>
        \A f \in files :
            /\ up.result.SavedFilePath = f.path /\ IsAbs(f.path)
            /\ up.result.SavedFile = Base(f.path)
            /\ ~Contains(up.result.SavedFile, "/")
            /\ up.result.Ext = Ext(Base(f.path))
            /\ up.result.Ext # <<>> => up.result.Ext[1] = "."

\* C19: every ReadUploadedFile / UploadFileToDir call builds its options from
\* the defaults (10 MiB, length 10) and applies the caller's options in the
\* order given: an option set twice takes the last value, an option not
\* supplied keeps its default, and a call's options depend on nothing but the
\* options passed to that call.
C19_OptionsFromDefaultsInOrder ==
    UploadCalled =>
        /\ up.opts.MaxFileSize = ConfiguredMax
        /\ up.opts.RandomStringSize = ConfiguredLength
        /\ up.options = <<>> => up.opts = [MaxFileSize |-> 10 * 1024 * 1024, RandomStringSize |-> 10]
        /\ (up.fn = "UploadFileToDir" /\ UploadSucceeded
                /\ Len(up.tmpl.pieces) = 4 /\ up.destDir = <<"/", "u">>) =>
              Len(up.result.SavedFile) = 3 + 2 + ConfiguredLength + 1 + Len(NamedInfo.Filename)

\* the maximum was set twice, the last value (20 MiB) is in force and the
\* random-string length kept its default
C19_Witness ==
    /\ UploadCalled /\ Len(up.options) = 2
    /\ up.options[1].field = "MaxFileSize" /\ up.options[1].size = 5
    /\ up.options[2].field = "MaxFileSize" /\ up.options[2].size = 20971520
    /\ up.opts = [MaxFileSize |-> 20971520, RandomStringSize |-> 10]
    /\ up.pc = "callback" /\ NamedInfo.Size = 10485761

\* the failures of the callback of UploadFileToDir
CallbackFailures == {"tmplparse", "tmplexec", "invalidpath", "create", "copy"}

\* C20: when UploadFileToDir fails at template rendering, the path check, file
\* creation or the copy, it returns the error with the partially populated
\* result (the stream and the file header, but no SavedFilePath, SavedFile or
\* Ext), and a destination file created before a copy failure still exists
\* after the call has returned.
C20_PartialResultNoCleanup ==
    (up.fn = "UploadFileToDir" /\ Returned /\ up.err.kind \in CallbackFailures) =>
        /\ up.callbacks = 1
        /\ up.result.File = "uploadedFile" /\ up.result.info = NamedInfo
        /\ up.result.SavedFilePath = <<>>
        /\ up.result.SavedFile = <<>>
        /\ up.result.Ext = <<>>
        /\ up.err.kind = "copy" =>
              /\ Cardinality(files) = 1
              /\ \A f \in files : IsAbs(f.path)
        /\ up.err.kind # "copy" => files = {}

\* the copy into /u/5.c failed: the error came back with the partial result
\* and the file is still there
C20_Witness ==
    /\ up.fn = "UploadFileToDir" /\ Returned /\ up.err.kind = "copy"
    /\ files = {[path |-> <<"/", "u", "/", "5", ".", "c">>, content |-> <<>>]}
    /\ up.result.File = "uploadedFile" /\ up.result.SavedFile = <<>>

(***************************************************************************)
(* Claims about the header and body helpers (checked under SpecReqHeader)  *)
(***************************************************************************)
\* the maximal runs of non-space characters of s, as <<first, last>> positions
Runs(s) ==
    { p \in (1..Len(s)) \X (1..Len(s)) :
        /\ p[1] <= p[2]
        /\ \A i \in p[1]..p[2] : ~IsSpace(s[i])
        /\ (p[1] = 1 \/ IsSpace(s[p[1] - 1]))
        /\ (p[2] = Len(s) \/ IsSpace(s[p[2] + 1])) }

\* s and t are equal up to the case of their letters
EqualFold(s, t) ==
    /\ Len(s) = Len(t)
    /\ \A i \in 1..Len(s) :
          \/ s[i] = t[i]
          \/ \E n \in 1..26 : {s[i], t[i]} = {UpperLetters[n], LowerLetters[n]}

\* C12: the bearer helper returns the second token and no error exactly when
\* the Authorization header holds exactly two whitespace-separated tokens of
\* which the first is "bearer" in any case; for every other value (absent, one
\* token, three or more, another scheme) it returns an empty token and an error.
C12_BearerExactlyTwoTokens ==
    got.T = "bearer" =>
        LET h    == got.pre.Header.Authorization
            runs == Runs(h)
            r1   == CHOOSE p \in runs : \A q \in runs : p[1] <= q[1]
            r2   == CHOOSE p \in runs : \A q \in runs : q[1] <= p[1]
            wellFormed == Cardinality(runs) = 2
                            /\ EqualFold(SubSeq(h, r1[1], r1[2]), bearer)
        IN  IF wellFormed
            THEN ~got.out.err /\ got.out.token = SubSeq(h, r2[1], r2[2])
            ELSE got.out.err /\ got.out.token = <<>>

\* "  bEARER \t tK" with surrounding whitespace gave the token tK unchanged
C12_Witness ==
    /\ got.T = "bearer" /\ ~got.out.err /\ got.out.token = <<"t", "K">>
    /\ got.pre.Header.Authorization[1] = " "
    /\ Len(got.pre.Header.Authorization) > 9

\* what a ReadBody call met: the header value and the body
BodyCall == got.T = "body"
SentType == got.pre.Header.ContentType
SentBody == got.pre.Body
Supported == {"application/json", "application/xml"}
FormatOf(ct) == IF ct = "application/json" THEN "json" ELSE "xml"

\* the dispatch on the exact header value
DispatchedOnExactType ==
    /\ SentType \in Supported =>
          /\ got.out.unmarshaled = FormatOf(SentType)
          /\ got.out.err = ~(IF SentType = "application/json" THEN SentBody.json ELSE SentBody.xml)
          /\ got.out.err => got.out.kind = "unmarshal"
          /\ SentBody.bytes = <<>> => got.out.err
    /\ SentType \notin Supported =>
          /\ got.out.err
          /\ Contains(got.out.msg, "unsupported content type")
          /\ Contains(got.out.msg, SentType)
          /\ got.out.unmarshaled = "none"

\* C13: the body decoder dispatches only on the exact Content-Type value:
\* application/json and application/xml lead to deserialization, whose failure
\* (also on an empty body) is returned; every other value, the absent header
\* included, returns an error containing "unsupported content type" and the
\* received value, with no deserialization attempted.  The dispatch follows
\* the reading of the body: a body that cannot be read is never dispatched on.
C13_DispatchOnExactContentType ==
    BodyCall =>
        IF SentBody.readFails
        THEN got.out.err /\ got.out.kind = "read" /\ got.out.unmarshaled = "none"
        ELSE DispatchedOnExactType

\* valid JSON sent as "application/json; charset=utf-8" was refused undecoded
C13_Witness ==
    /\ BodyCall /\ SentType = "application/json; charset=utf-8"
    /\ SentBody.json /\ ~SentBody.readFails
    /\ got.out.kind = "unsupported" /\ got.out.unmarshaled = "none"

(***************************************************************************)
(* Claims about filedownloads (checked under SpecDown)                     *)
(***************************************************************************)
StreamCall == call.fn \in {"StreamBytes", "DownloadCsv"}

\* what the call did on the writer
StreamLog == SubSeq(w.log, Len(call.pre.log) + 1, Len(w.log))

\* the position in the call's log of the Set of header key (0 when never set)
SetAt(key) ==
    LET set == { i \in 1..Len(StreamLog) :
                    StreamLog[i].op = "Header.Set" /\ StreamLog[i].key = key }
    IN  IF set = {} THEN 0 ELSE CHOOSE i \in set : \A o \in set : o <= i

RECURSIVE DecimalValue(_)
\* the number a string of decimal digits stands for
DecimalValue(d) ==
    IF d = <<>> THEN 0
    ELSE DecimalValue(SubSeq(d, 1, Len(d) - 1)) * 10 + DigitVal(d[Len(d)])

WritesAt == { i \in 1..Len(StreamLog) : StreamLog[i].op = "Write" }

\* C14: StreamBytes sets Content-Disposition to attachment; filename="<name>",
\* Content-Type to the given type and Content-Length to the number of bytes
\* given, all three before any body byte is written, and then writes exactly
\* the given bytes.
C14_HeadersThenBytes ==
    StreamCall =>
        /\ w.header["Content-Disposition"] =
              <<"attachment; filename=\"">> \o call.filename \o <<"\"">>
        /\ w.header["Content-Type"] = call.contentType
        /\ AllDigits(w.header["Content-Length"])
        /\ StripZeros(w.header["Content-Length"]) = w.header["Content-Length"]
        /\ DecimalValue(w.header["Content-Length"]) = Len(call.content)
        /\ \A k \in HeaderKeys : SetAt(k) > 0 /\ \A i \in WritesAt : SetAt(k) < i
        /\ Cardinality(WritesAt) = 1
        /\ \A i \in WritesAt : StreamLog[i].b = call.content
        /\ call.err.nil => w.Body = call.pre.Body \o call.content
        /\ ~call.pre.wroteHeader =>
              /\ w.sent = w.header
              /\ w.Code = StatusOK

\* ten bytes were streamed on a fresh writer under a name holding a quote
C14_Witness ==
    /\ call.fn = "StreamBytes" /\ call.err.nil /\ ~call.pre.wroteHeader
    /\ Len(call.content) = 10 /\ w.sent["Content-Length"] = <<"1", "0">>
    /\ call.filename = <<"a", "\"", "b">> /\ Len(w.Body) = 10

\* a call of one of the functions that stream a file or reader
FileCall == call.fn \in {"StreamContent", "DownloadFile", "DownloadCsvFile"}

\* the Stat of the call's file failed
StatFailed == call.fn \in {"DownloadFile", "DownloadCsvFile"} /\ call.file.statFails

\* the bytes the call handed to the writer, and those the writer took
Offered ==
    IF StreamCall THEN call.content
    ELSE SubSeq(call.file.content, 1, call.file.readable)

TakenByWriter == Len(w.Body) - Len(call.pre.Body)

\* the underlying operation that failed in the call ("none" when none did)
FailedOperation ==
    IF StreamCall
    THEN IF TakenByWriter < Len(Offered) THEN "write" ELSE "none"
    ELSE IF StatFailed THEN "stat"
    ELSE IF TakenByWriter < Len(Offered) THEN "write"
    ELSE IF call.file.readable < Len(call.file.content) THEN "read"
    ELSE "none"

DoCallsMade ==
    Len(mock.Calls)
    + Cardinality({ i \in 1..Len(testing) : testing[i] = DoCalledTooOften })

\* goroutine g is in, or has returned from, the Do call whose outcome is set
DoOutcome(g) ==
    goroutines[g].op = "Do" /\ goroutines[g].pc \in {"unlock", "idle"}

\* the Do call of goroutine g found no expectation left
OverLimit(g) == goroutines[g].err.msg = "expected %d calls, got %d"

\* goroutine g's Do call returned the k-th registered expectation
ReturnedExpectation(g, k) ==
    /\ goroutines[g].resp = mock.Expects[k].WantResponse
    /\ goroutines[g].err = mock.Expects[k].WantError

\* C22 (as stated): the k-th Do call to complete its critical section returns
\* the response and error registered by the k-th OnDo call, and the recorded
\* calls hand out every expectation at most once.
C22_KthDoGetsKthExpectation ==
    /\ \A g \in Goroutines :
          (/\ goroutines[g].op = "Do" /\ goroutines[g].pc = "unlock"
           /\ DoCallsMade <= Len(mock.Expects))
             => ReturnedExpectation(g, DoCallsMade)
    /\ \A i, j \in 1..Len(mock.Calls) :
          mock.Calls[i].Request = mock.Calls[j].Request => i = j

\* C22 (amended): the k-th Do call that finds an expectation left returns the
\* response and error registered by the k-th OnDo call, whatever the
\* interleaving: recorded calls and expectations pair up in order, every
\* recorded call is a different Do call, and a Do call that is not rejected
\* returns the expectation recorded with its request (the latest one while it
\* is still in its critical section).
C22_KthServedDoGetsKthExpectation ==
    /\ Len(mock.Calls) <= Len(mock.Expects)
    /\ \A k \in 1..Len(mock.Calls) : mock.Calls[k].Response = mock.Expects[k]
    /\ \A i, j \in 1..Len(mock.Calls) :
          mock.Calls[i].Request = mock.Calls[j].Request => i = j
    /\ \A g \in Goroutines :
          (DoOutcome(g) /\ ~OverLimit(g)) =>
             /\ \E k \in 1..Len(mock.Calls) :
                   mock.Calls[k].Request = goroutines[g].req /\ ReturnedExpectation(g, k)
             /\ goroutines[g].pc = "unlock" =>
                   mock.Calls[Len(mock.Calls)].Request = goroutines[g].req

\* two goroutines were each handed one of two different expectations while a
\* third Do call waits for the mutex or has been turned away
C22_Witness ==
    /\ Len(mock.Calls) = 2 /\ mock.Expects[1] # mock.Expects[2]
    /\ mock.Calls[1].Request[1] # mock.Calls[2].Request[1]
    /\ \E g \in Goroutines :
          /\ goroutines[g].op = "Do" /\ goroutines[g].pc = "unlock"
          /\ ReturnedExpectation(g, 2) /\ mock.Calls[2].Request = goroutines[g].req

\* the counters of the mock agree
CountersAgree ==
    /\ mock.callIndex = Len(mock.Calls)
    /\ mock.callIndex <= Len(mock.Expects)

\* goroutine g runs the body of its Do call in this step, with every
\* expectation already handed out
OverLimitDoStep(g) ==
    /\ goroutines[g].pc = "Do" /\ goroutines'[g].pc # "Do"
    /\ mock.callIndex = Len(mock.Expects)

\* C23: callIndex always equals the number of recorded Calls and is at most
\* the number of Expects, under every interleaving of Do, OnDo and
\* VerifyCallCount; and a Do call made when callIndex equals the number of
\* Expects returns a nil response and an error, reports a test failure, and
\* leaves callIndex, Calls and Expects as they were until it returns.
C23_CountersAgreeAndOverLimitRejected ==
    /\ []CountersAgree
    /\ [][\A g \in Goroutines :
            /\ OverLimitDoStep(g) =>
                  /\ goroutines'[g].resp = "nil" /\ ~goroutines'[g].err.nil
                  /\ testing' = Append(testing, DoCalledTooOften)
                  /\ mock' = mock
                  /\ goroutines'[g].pc = "unlock"
            /\ (goroutines[g].pc = "unlock" /\ goroutines'[g].pc = "idle") =>
                  /\ mock'.callIndex = mock.callIndex
                  /\ mock'.Calls = mock.Calls
                  /\ mock'.Expects = mock.Expects
                  /\ testing' = testing]_vars

\* a Do call was turned away by a mock whose one expectation had been handed
\* out, and has returned
C23_Witness ==
    /\ Len(mock.Expects) = 1 /\ mock.callIndex = 1 /\ Len(mock.Calls) = 1
    /\ ~mock.locked
    /\ \E g \in Goroutines :
          /\ goroutines[g].op = "Do" /\ goroutines[g].pc = "idle"
          /\ goroutines[g].resp = "nil" /\ OverLimit(g)
          /\ goroutines[g].err.args = <<1, 2>>
    /\ testing = <<DoCalledTooOften>>

\* C24: VerifyCallCount reports a test failure exactly when the number of Do
\* calls made so far differs from the number of expectations registered with
\* OnDo, in particular when Do was called more often than there are
\* expectations.
C24_VerifyReportsIffCountsDiffer ==
    [][\A g \in Goroutines :
          (goroutines[g].pc = "VerifyCallCount" /\ goroutines'[g].pc # "VerifyCallCount")
             => ((testing' # testing) <=> (DoCallsMade # Len(mock.Expects)))]_vars

(***************************************************************************)
(* Further claims about requests                                           *)
(***************************************************************************)
\* C25: extraction is a history-independent read of the request: an
\* extraction call changes the value of no later extraction, whatever its type
\* and name, so that Get[T](r, name) returns the same value after any calls
\* made on r before it, and the same value when repeated.
C25_ExtractionHistoryIndependent ==
    [][got'.T \in RequestTypes =>
          \A T \in RequestTypes, n \in Names :
             GetFromRequest(T, req', n).v = GetFromRequest(T, req, n).v]_vars

\* the number of type T (int32 or uint32) lies in the range of 32 bits
Fits32(T, v) ==
    IF T = "int32"
    THEN ~MagGreater(v.mag, IF v.neg THEN MinInt32Mag ELSE MaxInt32Mag)
    ELSE ~v.neg /\ ~MagGreater(v.mag, MaxUint32Mag)

\* str is a decimal numeral: digits, after a sign for a signed type
Numeral(T, str) ==
    IF T = "int32" /\ Len(str) > 0 /\ str[1] \in {"+", "-"}
    THEN AllDigits(Tail2(str))
    ELSE AllDigits(str)

\* the mathematical value of a numeral
ValueOf(str) ==
    LET signed == str[1] \in {"+", "-"}
        mag    == StripZeros(IF signed THEN Tail2(str) ELSE str)
    IN  [neg |-> str[1] = "-" /\ mag # <<"0">>, mag |-> mag]

\* str stands for a number the type of 32 bits can hold
Holds32(T, str) == Numeral(T, str) /\ Fits32(T, ValueOf(str))

RECURSIVE HeldOnes(_, _)
\* the values of the strings the type can hold, in order
HeldOnes(T, strs) ==
    IF strs = <<>> THEN <<>>
    ELSE (IF Holds32(T, Head(strs)) THEN <<ValueOf(Head(strs))>> ELSE <<>>)
            \o HeldOnes(T, Tail(strs))

\* C27: extraction of int32 and uint32 never wraps or truncates: a string
\* whose value lies outside the 32-bit range of the type, and for uint32 any
\* negative value, counts as unparsable; the scalar result is the value of the
\* first form value if the type holds it, else of the path value if the type
\* holds it, else 0; a sequence result holds, for the strings the form holds
\* for the name, the values the type can hold and omits the others; every
\* number returned is the mathematical value of the string it came from.
C27_NoWrapNoTruncation ==
    /\ got.T \in {"int32", "uint32"} =>
          /\ Fits32(got.T, got.v)
          /\ got.v = IF Holds32(got.T, FirstFormVal) THEN ValueOf(FirstFormVal)
                     ELSE IF Holds32(got.T, PathVal) THEN ValueOf(PathVal)
                     ELSE ZeroNum
    /\ got.T \in {"[]int32", "[]uint32"} =>
          /\ \A i \in 1..Len(got.v) : Fits32(ElemType(got.T), got.v[i])
          /\ got.v = HeldOnes(ElemType(got.T), got.pre.Form[got.name])

\* a form held 5000000000 and -3 for the name: the int32 sequence is [-3]
C27_Witness ==
    /\ got.T = "[]int32"
    /\ got.pre.Form[got.name] =
          << <<"5","0","0","0","0","0","0","0","0","0">>, <<"-","3">> >>
    /\ got.v = <<[neg |-> TRUE, mag |-> <<"3">>]>>

(***************************************************************************)
(* Further claims about uploads                                            *)
(***************************************************************************)
\* C26: the containment check of UploadFileToDir never rejects a legitimate
\* name: for every destination directory, absolute or relative, "." and the
\* empty string included, a rendered name without path separator and without
\* ".." element passes the check, and the file is created directly inside the
\* destination directory.
C26_PlainNameNeverRejected ==
    (up.fn = "UploadFileToDir" /\ Returned /\ RendersPlainName) =>
        /\ up.err.kind # "invalidpath"
        /\ up.err.kind = "nil" =>
              \A f \in files : Dir(Abs(f.path)) = Abs(Clean(up.destDir))

====
